---- MODULE Spec2Model ----
(***************************************************************************)
(* Storage core of db-engine: the file handle (block allocation and the    *)
(* doubly linked free list), the buffer manager (frames, pins, LRU) and    *)
(* the slotted page (insert / get / delete / compact).                     *)
(***************************************************************************)
EXTENDS Integers, Sequences, FiniteSets, TLC

VARIABLES
    blk_cnt,          \* FileHandle.header.blk_cnt
    first_free_hole,  \* FileHandle.header.first_free_hole
    header_dirty,     \* FileHandle.header_dirty
    disk,             \* the bytes of the file: block number -> contents
    file_len,         \* length in bytes of the file at the path, -1: no such file
    live,             \* history: blocks handed out by allocate_block and not freed since
    frames,           \* BufferManager.frames: slot -> frame or None
    map,              \* BufferManager.map: block id -> slot
    lru_list,         \* BufferManager.lru_list, front = least recently used
    guards,           \* the PageGuards that were returned and not dropped yet
    recency,          \* history: occupied slots, least recently fetched first
    pc,               \* "idle", or "fetch" while a fetch call has not returned
    ret,              \* the last call that returned, its argument and outcome
    page              \* a Page in memory: header, data and slots

fmVars == <<blk_cnt, first_free_hole, header_dirty, disk, file_len, live>>
bmVars == <<frames, map, lru_list, guards, recency, pc>>
vars == <<blk_cnt, first_free_hole, header_dirty, disk, file_len, live,
          frames, map, lru_list, guards, recency, pc, ret, page>>

(***************************************************************************)
(* Bounds of the model and program constants                               *)
(***************************************************************************)
MaxBlocks == 4            \* blk_cnt never grows past this in the model
Capacity == 2             \* BufferManager::new(handle, capacity)
MaxGuards == 2            \* guards alive at once in the model
MaxLru == 4               \* lru_list never grows past this in the model
MaxVal == 1               \* byte values written through a guard: 0..MaxVal
PageSize == 20            \* page_size of the slotted page under test, in bytes
MaxData == 8              \* cap on the bytes insert_record has appended to Page.data
MaxRecLen == 2            \* records of 0..MaxRecLen bytes are inserted
MaxBigData == 65540       \* cap on Page.data when records of 64 KiB are inserted
MaxIo == 6                \* a call's reads and writes that can be made to fail: the first MaxIo
BLOCK_SIZE == 4096
DEFAULT_BLOCK_SIZE == 4096
DEFAULT_PREALLOC_BLOCKS == 16
FileHeaderByteSize == 16
PageHeaderEncodedLen == 12

Blocks == 1..(MaxBlocks - 1)          \* data block numbers the model can hold
AllBlocks == 0..(MaxBlocks - 1)       \* with block 0, the file header
BlockArgs == 0..MaxBlocks             \* block arguments tried, in and out of range
PoolArgs == 1..MaxBlocks              \* block arguments given to the pool

\* PageHeader::max_free_bytes()
MaxFreeBytes == BLOCK_SIZE - PageHeaderEncodedLen

\* PageHeader::new_free(): an unlinked free-list-style header
NewFree == [next |-> -1, prev |-> -1, fb |-> MaxFreeBytes]

\* A block is kept as its first three little-endian 32-bit words and the rest:
\* for a data block read as a free-list page header these are next_free_page,
\* prev_free_page and free_bytes; block 0 holds blk_cnt, first_free_hole and
\* pre_f there (next_f, always 0, is part of the rest).  The rest is kept as
\* the last 32-bit word of the block: every byte between the third word and
\* the last is zero in every block the model reaches.
\* a zeroed block carrying the given free-list-style header
BlockOf(h) == [next |-> h.next, prev |-> h.prev, fb |-> h.fb, body |-> 0]

\* the bytes of a block of the preallocated file that was never written
ZeroBlock == [next |-> 0, prev |-> 0, fb |-> 0, body |-> 0]

\* block 0 as initialize_file / flush_header write it: the header, zero padded
HeaderBlock(cnt, hole) == [next |-> cnt, prev |-> hole, fb |-> 0, body |-> 0]

FreeBytesArgs == {0, 1, MaxFreeBytes, MaxFreeBytes + 1}
MinFreeArgs == {0, 2}

(***************************************************************************)
(* File handle.  A file state fs is the record                             *)
(*   [blk_cnt, first_free_hole, header_dirty, disk];                       *)
(* every helper returns [ok, fs] (and val where the code returns a value). *)
(***************************************************************************)
FS == [blk_cnt |-> blk_cnt, first_free_hole |-> first_free_hole,
       header_dirty |-> header_dirty, disk |-> disk]

\* ensure_block_range: only block_num >= blk_cnt is refused
EnsureBlockRange(fs, n) == n < fs.blk_cnt

\* read_page_header: the first 12 bytes of the block, decoded
ReadPageHeader(fs, n) ==
    [next |-> fs.disk[n].next, prev |-> fs.disk[n].prev, fb |-> fs.disk[n].fb]

\* write_page_header: overwrites the first 12 bytes only
WritePageHeader(fs, n, h) ==
    [fs EXCEPT !.disk[n].next = h.next, !.disk[n].prev = h.prev, !.disk[n].fb = h.fb]

\* detach_from_free_list, with the back-link of the successor left stale
DetachNoBackLink(fs, block, ph) ==
    IF ph.prev >= 0
    THEN IF ~EnsureBlockRange(fs, ph.prev) THEN [ok |-> FALSE, fs |-> fs]
         ELSE [ok |-> TRUE,
               fs |-> WritePageHeader(fs, ph.prev,
                        [ReadPageHeader(fs, ph.prev) EXCEPT !.next = ph.next])]
    ELSE [ok |-> TRUE,
          fs |-> [fs EXCEPT !.first_free_hole = ph.next, !.header_dirty = TRUE]]

DetachFromFreeList(fs, block, ph) ==
    LET s1 == IF ph.prev >= 0
              THEN IF ~EnsureBlockRange(fs, ph.prev) THEN [ok |-> FALSE, fs |-> fs]
                   ELSE [ok |-> TRUE,
                         fs |-> WritePageHeader(fs, ph.prev,
                                  [ReadPageHeader(fs, ph.prev) EXCEPT !.next = ph.next])]
              ELSE [ok |-> TRUE,
                    fs |-> [fs EXCEPT !.first_free_hole = ph.next,
                                      !.header_dirty = TRUE]]
    IN  IF ~s1.ok THEN s1
        ELSE IF ph.next >= 0
        THEN IF ~EnsureBlockRange(s1.fs, ph.next) THEN [ok |-> FALSE, fs |-> s1.fs]
             ELSE [ok |-> TRUE,
                   fs |-> WritePageHeader(s1.fs, ph.next,
                            [ReadPageHeader(s1.fs, ph.next) EXCEPT !.prev = ph.prev])]
        ELSE s1

\* take_free_block: first block of the list with free_bytes >= min_free_bytes
RECURSIVE TakeFrom(_, _, _)
TakeFrom(fs, current, min_free_bytes) ==
    IF current < 0 THEN [ok |-> TRUE, found |-> FALSE, val |-> 0, fs |-> fs]
    ELSE IF ~EnsureBlockRange(fs, current)
    THEN [ok |-> FALSE, found |-> FALSE, val |-> 0, fs |-> fs]
    ELSE LET page_hdr == ReadPageHeader(fs, current) IN
         IF page_hdr.fb >= min_free_bytes
         THEN LET d == DetachFromFreeList(fs, current, page_hdr) IN
              IF ~d.ok THEN [ok |-> FALSE, found |-> FALSE, val |-> 0, fs |-> d.fs]
              ELSE [ok |-> TRUE, found |-> TRUE, val |-> current,
                    fs |-> WritePageHeader(d.fs, current,
                             [page_hdr EXCEPT !.next = -1, !.prev = -1])]
         ELSE TakeFrom(fs, page_hdr.next, min_free_bytes)

TakeFreeBlock(fs, min_free_bytes) == TakeFrom(fs, fs.first_free_hole, min_free_bytes)

\* append_block that forgets to count the new block
AppendNoIncrement(fs) ==
    [ok |-> TRUE, val |-> fs.blk_cnt,
     fs |-> [fs EXCEPT !.disk[fs.blk_cnt] = BlockOf(NewFree), !.header_dirty = TRUE]]

\* append_block: a zeroed block with a fresh header at the end of the file
AppendBlock(fs) ==
    [ok |-> TRUE, val |-> fs.blk_cnt,
     fs |-> [fs EXCEPT !.disk[fs.blk_cnt] = BlockOf(NewFree),
                       !.blk_cnt = fs.blk_cnt + 1,
                       !.header_dirty = TRUE]]

\* allocate_block_with_space
AllocateBlockWithSpace(fs, min_free_bytes) ==
    LET t == TakeFreeBlock(fs, min_free_bytes) IN
    IF ~t.ok THEN [ok |-> FALSE, val |-> 0, fs |-> t.fs]
    ELSE IF t.found THEN [ok |-> TRUE, val |-> t.val, fs |-> t.fs]
    ELSE AppendBlock(fs)

\* an allocate_block that ignores the free list and always grows the file
AllocateAlwaysAppend(fs) == AppendBlock(fs)

\* allocate_block
AllocateBlock(fs) == AllocateBlockWithSpace(fs, 0)

\* a free_block that links the block without looking at its current links
FreeBlockAlwaysLink(fs, block_num) ==
    IF block_num = 0 THEN [ok |-> FALSE, fs |-> fs]
    ELSE IF ~EnsureBlockRange(fs, block_num) THEN [ok |-> FALSE, fs |-> fs]
    ELSE LET h  == [next |-> fs.first_free_hole, prev |-> -1, fb |-> MaxFreeBytes]
             s1 == WritePageHeader(fs, block_num, h)
         IN  IF h.next >= 0
             THEN [ok |-> TRUE,
                   fs |-> [WritePageHeader(s1, h.next,
                             [ReadPageHeader(s1, h.next) EXCEPT !.prev = block_num])
                           EXCEPT !.first_free_hole = block_num,
                                  !.header_dirty = TRUE]]
             ELSE [ok |-> TRUE,
                   fs |-> [s1 EXCEPT !.first_free_hole = block_num,
                                     !.header_dirty = TRUE]]

\* free_block
FreeBlock(fs, block_num) ==
    IF block_num = 0 THEN [ok |-> FALSE, fs |-> fs]
    ELSE IF ~EnsureBlockRange(fs, block_num) THEN [ok |-> FALSE, fs |-> fs]
    ELSE LET page_hdr == ReadPageHeader(fs, block_num) IN
         IF \/ page_hdr.prev # -1
            \/ page_hdr.next # -1
            \/ fs.first_free_hole = block_num
         THEN [ok |-> TRUE, fs |-> fs]
         ELSE LET h  == [next |-> fs.first_free_hole, prev |-> -1, fb |-> MaxFreeBytes]
                  s1 == WritePageHeader(fs, block_num, h)
              IN  IF h.next >= 0
                  THEN IF ~EnsureBlockRange(s1, h.next) THEN [ok |-> FALSE, fs |-> s1]
                       ELSE [ok |-> TRUE,
                             fs |-> [WritePageHeader(s1, h.next,
                                       [ReadPageHeader(s1, h.next) EXCEPT !.prev = block_num])
                                     EXCEPT !.first_free_hole = block_num,
                                            !.header_dirty = TRUE]]
                  ELSE [ok |-> TRUE,
                        fs |-> [s1 EXCEPT !.first_free_hole = block_num,
                                          !.header_dirty = TRUE]]

\* update_free_bytes
UpdateFreeBytes(fs, block_num, free_bytes) ==
    IF free_bytes > BLOCK_SIZE - PageHeaderEncodedLen THEN [ok |-> FALSE, fs |-> fs]
    ELSE IF ~EnsureBlockRange(fs, block_num) THEN [ok |-> FALSE, fs |-> fs]
    ELSE LET read == ReadPageHeader(fs, block_num)
             was_in_list == \/ read.prev # -1
                            \/ read.next # -1
                            \/ fs.first_free_hole = block_num
             should_be_in_list == free_bytes > 0
             page_hdr == [read EXCEPT !.fb = free_bytes]
         IN  IF was_in_list /\ ~should_be_in_list
             THEN LET d == DetachFromFreeList(fs, block_num, page_hdr) IN
                  IF ~d.ok THEN [ok |-> FALSE, fs |-> d.fs]
                  ELSE [ok |-> TRUE,
                        fs |-> WritePageHeader(d.fs, block_num,
                                 [page_hdr EXCEPT !.prev = -1, !.next = -1])]
             ELSE IF ~was_in_list /\ should_be_in_list
             THEN LET h == [page_hdr EXCEPT !.next = fs.first_free_hole, !.prev = -1] IN
                  IF h.next >= 0
                  THEN IF ~EnsureBlockRange(fs, h.next) THEN [ok |-> FALSE, fs |-> fs]
                       ELSE LET s1 == WritePageHeader(fs, h.next,
                                        [ReadPageHeader(fs, h.next) EXCEPT !.prev = block_num])
                                s2 == [s1 EXCEPT !.first_free_hole = block_num,
                                                 !.header_dirty = TRUE]
                            IN  [ok |-> TRUE, fs |-> WritePageHeader(s2, block_num, h)]
                  ELSE [ok |-> TRUE,
                        fs |-> WritePageHeader(
                                 [fs EXCEPT !.first_free_hole = block_num,
                                            !.header_dirty = TRUE], block_num, h)]
             ELSE [ok |-> TRUE, fs |-> WritePageHeader(fs, block_num, page_hdr)]

(***************************************************************************)
(* The same calls statement by statement.  A call in progress is the       *)
(* record [ok, n, fs]: n counts the file reads and writes issued so far    *)
(* and the call's fail_at-th read or write (0: none) returns an error,     *)
(* which `?` hands to the caller at once, fs being the handle's fields and *)
(* the file as they stand at that statement.                               *)
(***************************************************************************)
StartCall(fs) == [ok |-> TRUE, n |-> 0, fs |-> fs]

\* one seek-and-read or seek-and-write of the file
IoCall(s, fail_at) ==
    IF ~s.ok THEN s ELSE [s EXCEPT !.n = @ + 1, !.ok = (s.n + 1 # fail_at)]

\* read_page_header(block_num)?; the header read is ReadPageHeader(s.fs, block_num)
ReadHeaderIo(s, block_num, fail_at) ==
    IF ~s.ok THEN s
    ELSE IF ~EnsureBlockRange(s.fs, block_num) THEN [s EXCEPT !.ok = FALSE]
    ELSE IoCall(s, fail_at)

\* write_page_header(block_num, h)?
WriteHeaderIo(s, block_num, h, fail_at) ==
    IF ~s.ok THEN s
    ELSE IF ~EnsureBlockRange(s.fs, block_num) THEN [s EXCEPT !.ok = FALSE]
    ELSE LET c == IoCall(s, fail_at) IN
         IF c.ok THEN [c EXCEPT !.fs = WritePageHeader(c.fs, block_num, h)] ELSE c

\* self.header.first_free_hole = v; self.header_dirty = true
SetFirstFreeHole(s, v) ==
    IF ~s.ok THEN s
    ELSE [s EXCEPT !.fs.first_free_hole = v, !.fs.header_dirty = TRUE]

\* detach_from_free_list
DetachFromFreeListIo(s, block, ph, fail_at) ==
    LET s1 == IF ph.prev >= 0
              THEN LET r == ReadHeaderIo(s, ph.prev, fail_at) IN
                   WriteHeaderIo(r, ph.prev,
                       [ReadPageHeader(r.fs, ph.prev) EXCEPT !.next = ph.next], fail_at)
              ELSE SetFirstFreeHole(s, ph.next)
    IN  IF ph.next >= 0
        THEN LET r == ReadHeaderIo(s1, ph.next, fail_at) IN
             WriteHeaderIo(r, ph.next,
                 [ReadPageHeader(r.fs, ph.next) EXCEPT !.prev = ph.prev], fail_at)
        ELSE s1

\* take_free_block: [found, val, s]
RECURSIVE TakeFromIo(_, _, _, _)
TakeFromIo(s, current, min_free_bytes, fail_at) ==
    IF current < 0 THEN [found |-> FALSE, val |-> 0, s |-> s]
    ELSE LET r == ReadHeaderIo(s, current, fail_at) IN
         IF ~r.ok THEN [found |-> FALSE, val |-> 0, s |-> r]
         ELSE LET page_hdr == ReadPageHeader(r.fs, current) IN
              IF page_hdr.fb >= min_free_bytes
              THEN LET d == DetachFromFreeListIo(r, current, page_hdr, fail_at) IN
                   [found |-> TRUE, val |-> current,
                    s |-> WriteHeaderIo(d, current,
                              [page_hdr EXCEPT !.next = -1, !.prev = -1], fail_at)]
              ELSE TakeFromIo(r, page_hdr.next, min_free_bytes, fail_at)

\* append_block: the new block is written, then counted
AppendBlockIo(s, fail_at) ==
    LET c == IoCall(s, fail_at) IN
    IF c.ok THEN [c EXCEPT !.fs = AppendBlock(c.fs).fs] ELSE c

\* allocate_block_with_space: [ok, val, n, fs]
AllocateBlockWithSpaceIo(fs, min_free_bytes, fail_at) ==
    LET t == TakeFromIo(StartCall(fs), fs.first_free_hole, min_free_bytes, fail_at) IN
    IF ~t.s.ok THEN [ok |-> FALSE, val |-> 0, n |-> t.s.n, fs |-> t.s.fs]
    ELSE IF t.found THEN [ok |-> TRUE, val |-> t.val, n |-> t.s.n, fs |-> t.s.fs]
    ELSE LET a == AppendBlockIo(t.s, fail_at) IN
         [ok |-> a.ok, val |-> IF a.ok THEN fs.blk_cnt ELSE 0, n |-> a.n, fs |-> a.fs]

\* free_block: [ok, n, fs]
FreeBlockIo(fs, block_num, fail_at) ==
    IF block_num = 0 THEN [ok |-> FALSE, n |-> 0, fs |-> fs]
    ELSE LET r == ReadHeaderIo(StartCall(fs), block_num, fail_at)
             page_hdr == ReadPageHeader(fs, block_num)
             h == [next |-> fs.first_free_hole, prev |-> -1, fb |-> MaxFreeBytes]
             s1 == WriteHeaderIo(r, block_num, h, fail_at)
             s2 == IF h.next >= 0
                   THEN LET rn == ReadHeaderIo(s1, h.next, fail_at) IN
                        WriteHeaderIo(rn, h.next,
                            [ReadPageHeader(rn.fs, h.next) EXCEPT !.prev = block_num],
                            fail_at)
                   ELSE s1
             s3 == SetFirstFreeHole(s2, block_num)
         IN  IF ~r.ok THEN [ok |-> FALSE, n |-> r.n, fs |-> r.fs]
             ELSE IF \/ page_hdr.prev # -1
                     \/ page_hdr.next # -1
                     \/ fs.first_free_hole = block_num
             THEN [ok |-> TRUE, n |-> r.n, fs |-> r.fs]
             ELSE [ok |-> s3.ok, n |-> s3.n, fs |-> s3.fs]

\* update_free_bytes: [ok, n, fs]
UpdateFreeBytesIo(fs, block_num, free_bytes, fail_at) ==
    IF free_bytes > BLOCK_SIZE - PageHeaderEncodedLen THEN [ok |-> FALSE, n |-> 0, fs |-> fs]
    ELSE LET r == ReadHeaderIo(StartCall(fs), block_num, fail_at)
             read == ReadPageHeader(fs, block_num)
             was_in_list == \/ read.prev # -1
                            \/ read.next # -1
                            \/ fs.first_free_hole = block_num
             should_be_in_list == free_bytes > 0
             page_hdr == [read EXCEPT !.fb = free_bytes]
             linked == [page_hdr EXCEPT !.next = fs.first_free_hole, !.prev = -1]
             s1 == IF was_in_list /\ ~should_be_in_list
                   THEN DetachFromFreeListIo(r, block_num, page_hdr, fail_at)
                   ELSE IF ~was_in_list /\ should_be_in_list
                   THEN SetFirstFreeHole(
                            IF linked.next >= 0
                            THEN LET rn == ReadHeaderIo(r, linked.next, fail_at) IN
                                 WriteHeaderIo(rn, linked.next,
                                     [ReadPageHeader(rn.fs, linked.next)
                                        EXCEPT !.prev = block_num], fail_at)
                            ELSE r,
                            block_num)
                   ELSE r
             final == IF was_in_list /\ ~should_be_in_list
                      THEN [page_hdr EXCEPT !.prev = -1, !.next = -1]
                      ELSE IF ~was_in_list /\ should_be_in_list THEN linked
                      ELSE page_hdr
             s2 == WriteHeaderIo(s1, block_num, final, fail_at)
         IN  IF ~r.ok THEN [ok |-> FALSE, n |-> r.n, fs |-> r.fs]
             ELSE [ok |-> s2.ok, n |-> s2.n, fs |-> s2.fs]

(***************************************************************************)
(* Buffer manager.  A pool state bm is the record [frames, map, lru_list]; *)
(* slots are numbered 1..Capacity (0..capacity-1 in the code).  The        *)
(* manager's own free_list is only ever pushed to and never read, and is   *)
(* left out.                                                               *)
(***************************************************************************)
Slots == 1..Capacity
Vals == 0..MaxVal
PAGE_HDR_SIZE == 6

\* Option::None in frames
None == [block_id |-> -1, data |-> ZeroBlock, dirty |-> FALSE, pin_count |-> 0]
IsNone(f) == f.block_id = -1

BM == [frames |-> frames, map |-> map, lru_list |-> lru_list]

\* FileHandle::read_block / write_block on a block that passes ensure_block_range
ReadBlock(fs, n) == fs.disk[n]
WriteBlock(fs, n, data) == [fs EXCEPT !.disk[n] = data]

\* read_block as a caller of the handle sees it: ensure_block_range, then the
\* read into a buffer of BLOCK_SIZE bytes
TryReadBlock(fs, n) ==
    IF ~EnsureBlockRange(fs, n) THEN [ok |-> FALSE, data |-> ZeroBlock, fs |-> fs]
    ELSE [ok |-> TRUE, data |-> ReadBlock(fs, n), fs |-> fs]

\* write_block as a caller of the handle sees it
TryWriteBlock(fs, n, data) ==
    IF ~EnsureBlockRange(fs, n) THEN [ok |-> FALSE, fs |-> fs]
    ELSE [ok |-> TRUE, fs |-> WriteBlock(fs, n, data)]

\* flush_header
FlushHeader(fs) ==
    IF ~fs.header_dirty THEN fs
    ELSE [fs EXCEPT !.disk[0] = HeaderBlock(fs.blk_cnt, fs.first_free_hole),
                    !.header_dirty = FALSE]

\* sync
Sync(fs) == FlushHeader(fs)

\* the flush() the buffer manager calls on its handle
HandleFlush(fs) == Sync(fs)

\* a drop of the handle that leaves the header as it is on disk
DropNoFlush(fs) == fs

\* impl Drop for FileHandle: flush_header, with no I/O failure
DropHandle(fs) == FlushHeader(fs)

\* open_file: read_header decodes the first words of block 0, FileHandle::new
\* starts with a clean header
OpenFile(fs) ==
    [blk_cnt |-> fs.disk[0].next, first_free_hole |-> fs.disk[0].prev,
     header_dirty |-> FALSE, disk |-> fs.disk]

MapRemove(m, b) == [x \in DOMAIN m \ {b} |-> m[x]]
MapInsert(m, b, idx) == [x \in DOMAIN m \cup {b} |-> IF x = b THEN idx ELSE m[x]]

\* VecDeque: remove the first occurrence of x, if any
RECURSIVE RemoveFirst(_, _)
RemoveFirst(s, x) ==
    IF s = <<>> THEN <<>>
    ELSE IF Head(s) = x THEN Tail(s)
    ELSE <<Head(s)>> \o RemoveFirst(Tail(s), x)

\* find_frame: the scan's result is discarded, the map decides
FindFrame(bm, block_id) == IF block_id \in DOMAIN bm.map THEN bm.map[block_id] ELSE 0

\* touch
Touch(lru, idx) == Append(RemoveFirst(lru, idx), idx)

\* frames.iter().position(|f| f.is_none()), 0 when every slot is taken
FirstEmpty(fr) ==
    IF \E i \in Slots : IsNone(fr[i])
    THEN CHOOSE i \in Slots : IsNone(fr[i]) /\ \A j \in 1..(i - 1) : ~IsNone(fr[j])
    ELSE 0

\* whether the victim loop of fetch can ever break
HasVictim(lru, fr) ==
    \E k \in 1..Len(lru) : ~IsNone(fr[lru[k]]) /\ fr[lru[k]].pin_count = 0

\* victim selection that takes the front of lru_list whatever its pin count
FrontAsVictim(lru, fr) == lru

\* the victim loop of fetch: entries at the front that are pinned go to the back
RECURSIVE RotateToVictim(_, _)
RotateToVictim(lru, fr) ==
    IF lru = <<>> THEN lru
    ELSE IF ~IsNone(fr[Head(lru)]) /\ fr[Head(lru)].pin_count = 0 THEN lru
    ELSE RotateToVictim(Append(Tail(lru), Head(lru)), fr)

\* eviction that drops a dirty victim without writing it
EvictNoWriteBack(fs, old) == fs

\* fetch, lines 102-105: a dirty victim goes to its own block
EvictWriteBack(fs, old) ==
    IF old.dirty THEN WriteBlock(fs, old.block_id, old.data) ELSE fs

\* fetch, step 3: read the block into slot idx, pin it, register it
LoadFrame(bm, fs, block_id, idx, io, evicted) ==
    IF io = "read_fails" \/ ~EnsureBlockRange(fs, block_id)
    THEN [res |-> "err", idx |-> 0, evicted |-> evicted, bm |-> bm, fs |-> fs]
    ELSE [res |-> "miss", idx |-> idx, evicted |-> evicted, fs |-> fs,
          bm |-> [frames |-> [bm.frames EXCEPT ![idx] =
                                [block_id |-> block_id, data |-> ReadBlock(fs, block_id),
                                 dirty |-> FALSE, pin_count |-> 1]],
                  map |-> MapInsert(bm.map, block_id, idx),
                  lru_list |-> Append(bm.lru_list, idx)]]

\* a fetch that reads the block again when it is already resident
FetchRereadOnHit(bm, fs, block_id, io) ==
    LET hit == FindFrame(bm, block_id) IN
    IF hit # 0
    THEN [res |-> "hit", idx |-> hit, evicted |-> 0, fs |-> fs,
          bm |-> [bm EXCEPT !.frames[hit].pin_count =
                                IF IsNone(bm.frames[hit]) THEN @ ELSE @ + 1,
                            !.frames[hit].data = ReadBlock(fs, block_id),
                            !.lru_list = Touch(bm.lru_list, hit)]]
    ELSE LET free_idx == FirstEmpty(bm.frames) IN
         IF free_idx # 0 THEN LoadFrame(bm, fs, block_id, free_idx, io, 0)
         ELSE IF ~HasVictim(bm.lru_list, bm.frames)
         THEN [res |-> "spin", idx |-> 0, evicted |-> 0, bm |-> bm, fs |-> fs]
         ELSE LET lru1 == RotateToVictim(bm.lru_list, bm.frames)
                  victim_idx == Head(lru1)
                  old_frame == bm.frames[victim_idx]
              IN  IF old_frame.dirty /\ (io = "write_fails"
                                         \/ ~EnsureBlockRange(fs, old_frame.block_id))
                  THEN [res |-> "err", idx |-> 0, evicted |-> 0, fs |-> fs,
                        bm |-> [bm EXCEPT !.lru_list = lru1]]
                  ELSE LoadFrame([frames |-> [bm.frames EXCEPT ![victim_idx] = None],
                                  map |-> MapRemove(bm.map, old_frame.block_id),
                                  lru_list |-> lru1],
                                 EvictWriteBack(fs, old_frame),
                                 block_id, victim_idx, io, victim_idx)

\* fetch; io says which disk access of the call fails, if any.
\* res = "spin" when the victim loop cannot break: the call never returns.
Fetch(bm, fs, block_id, io) ==
    LET hit == FindFrame(bm, block_id) IN
    IF hit # 0
    THEN [res |-> "hit", idx |-> hit, evicted |-> 0, fs |-> fs,
          bm |-> [bm EXCEPT !.frames[hit].pin_count =
                                IF IsNone(bm.frames[hit]) THEN @ ELSE @ + 1,
                            !.lru_list = Touch(bm.lru_list, hit)]]
    ELSE LET free_idx == FirstEmpty(bm.frames) IN
         IF free_idx # 0 THEN LoadFrame(bm, fs, block_id, free_idx, io, 0)
         ELSE IF ~HasVictim(bm.lru_list, bm.frames)
         THEN [res |-> "spin", idx |-> 0, evicted |-> 0, bm |-> bm, fs |-> fs]
         ELSE LET lru1 == RotateToVictim(bm.lru_list, bm.frames)
                  victim_idx == Head(lru1)
                  old_frame == bm.frames[victim_idx]
              IN  IF old_frame.dirty /\ (io = "write_fails"
                                         \/ ~EnsureBlockRange(fs, old_frame.block_id))
                  THEN [res |-> "err", idx |-> 0, evicted |-> 0, fs |-> fs,
                        bm |-> [bm EXCEPT !.lru_list = lru1]]
                  ELSE LoadFrame([frames |-> [bm.frames EXCEPT ![victim_idx] = None],
                                  map |-> MapRemove(bm.map, old_frame.block_id),
                                  lru_list |-> lru1],
                                 EvictWriteBack(fs, old_frame),
                                 block_id, victim_idx, io, victim_idx)

\* an unpin that decrements whatever the count is
UnpinUnchecked(bm, block_id) ==
    LET idx == FindFrame(bm, block_id) IN
    IF idx # 0 /\ ~IsNone(bm.frames[idx])
    THEN [bm EXCEPT !.frames[idx].pin_count = @ - 1]
    ELSE bm

\* unpin
Unpin(bm, block_id) ==
    LET idx == FindFrame(bm, block_id) IN
    IF idx # 0 /\ ~IsNone(bm.frames[idx]) /\ bm.frames[idx].pin_count > 0
    THEN [bm EXCEPT !.frames[idx].pin_count = @ - 1]
    ELSE bm

\* mark_dirty
MarkDirty(bm, block_id) ==
    LET idx == FindFrame(bm, block_id) IN
    IF idx # 0 /\ ~IsNone(bm.frames[idx])
    THEN [bm EXCEPT !.frames[idx].dirty = TRUE]
    ELSE bm

\* flush_all: slots in order; fail_at is the slot whose write fails (0: none)
RECURSIVE FlushFrom(_, _, _, _)
FlushFrom(bm, fs, i, fail_at) ==
    IF i > Capacity THEN [ok |-> TRUE, bm |-> bm, fs |-> HandleFlush(fs)]
    ELSE IF ~IsNone(bm.frames[i]) /\ bm.frames[i].dirty
    THEN IF i = fail_at \/ ~EnsureBlockRange(fs, bm.frames[i].block_id)
         THEN [ok |-> FALSE, bm |-> bm, fs |-> fs]
         ELSE FlushFrom([bm EXCEPT !.frames[i].dirty = FALSE],
                        WriteBlock(fs, bm.frames[i].block_id, bm.frames[i].data),
                        i + 1, fail_at)
    ELSE FlushFrom(bm, fs, i + 1, fail_at)

\* a flush_all that clears the dirty flags and writes nothing
FlushAllNoWrite(bm, fs, fail_at) ==
    [ok |-> TRUE,
     bm |-> [bm EXCEPT !.frames = [i \in Slots |-> [bm.frames[i] EXCEPT !.dirty = FALSE]]],
     fs |-> HandleFlush(fs)]

FlushAll(bm, fs, fail_at) == FlushFrom(bm, fs, 1, fail_at)

\* the image allocate_data_page writes: an empty slotted-page header
\* (slot_count = 0, free_offset = 6, free_bytes = block_size - 6, each u16)
\* over a zeroed block, read back as 32-bit words
EmptyPageBlock ==
    [next |-> 0 + PAGE_HDR_SIZE * 65536, prev |-> BLOCK_SIZE - PAGE_HDR_SIZE,
     fb |-> 0, body |-> 0]

\* the block_size() the buffer manager asks its handle for at construction
HandleBlockSize == BLOCK_SIZE

\* an allocate_data_page that hands the block out as allocate_block left it
AllocateDataPageNoInit(bm, fs) ==
    LET a == AllocateBlock(fs) IN
    IF ~a.ok THEN [ok |-> FALSE, val |-> 0, bm |-> bm, fs |-> a.fs]
    ELSE [ok |-> TRUE, val |-> a.val, bm |-> bm, fs |-> a.fs]

\* PageHeader::from_bytes on the first 6 bytes of a block image
DecodePageHeader(block) ==
    [slot_count |-> block.next % 65536,
     free_offset |-> (block.next \div 65536) % 65536,
     free_bytes |-> block.prev % 65536]

\* allocate_data_page
AllocateDataPage(bm, fs) ==
    LET a == AllocateBlock(fs) IN
    IF ~a.ok THEN [ok |-> FALSE, val |-> 0, bm |-> bm, fs |-> a.fs]
    ELSE [ok |-> TRUE, val |-> a.val, bm |-> bm,
          fs |-> WriteBlock(a.fs, a.val, EmptyPageBlock)]

\* free_page that forgets the map entry
FreePageKeepMap(bm, block_id) ==
    LET idx == FindFrame(bm, block_id) IN
    IF idx = 0 THEN bm
    ELSE [bm EXCEPT !.frames[idx] = None,
                    !.lru_list = RemoveFirst(RemoveFirst(bm.lru_list, idx), idx)]

\* free_page: both lookups find the same slot, so lru_list loses up to two
\* entries for it; the file handle is not called
FreePage(bm, block_id) ==
    LET idx == FindFrame(bm, block_id) IN
    IF idx = 0 THEN bm
    ELSE [frames |-> [bm.frames EXCEPT ![idx] = None],
          map |-> MapRemove(bm.map, block_id),
          lru_list |-> RemoveFirst(RemoveFirst(bm.lru_list, idx), idx)]

(***************************************************************************)
(* Slotted page in memory: page_ops.rs, page_compact.rs                    *)
(***************************************************************************)
\* u16 arithmetic
U16(n) == n % 65536

\* the empty page test_page_ops builds for a frame of page_size bytes
EmptyPage(page_size) ==
    [header |-> [slot_count |-> 0, free_offset |-> PAGE_HDR_SIZE,
                 free_bytes |-> U16(U16(page_size) - PAGE_HDR_SIZE)],
     data |-> <<>>,
     slots |-> <<>>]

SaturatingSub(a, b) == IF a > b THEN a - b ELSE 0

\* insert_record: [err, val (the slot id), page]
InsertRecord(p, data) ==
    LET data_len == U16(Len(data))
        slot_entry_size == 4
        off == p.header.free_offset
    IN  IF p.header.free_bytes < U16(data_len + slot_entry_size)
        THEN [err |-> "Other", val |-> 0, page |-> p]
        ELSE [err |-> "Ok",
              val |-> U16(Len(p.slots)),
              page |-> [header |->
                          [slot_count |-> U16(p.header.slot_count + 1),
                           free_offset |-> U16(p.header.free_offset + data_len),
                           free_bytes |-> U16(U16(p.header.free_bytes - data_len)
                                                - slot_entry_size)],
                        data |-> p.data \o data,
                        slots |-> Append(p.slots, <<off, data_len>>)]]

\* insert_record as a build with overflow checks (the dev profile) runs it:
\* `as u16` truncates silently, an addition that leaves u16 panics; err is
\* "Panic" then and page is the page as the panic leaves it
InsertRecordChecked(p, data) ==
    LET data_len == U16(Len(data))
        slot_entry_size == 4
        off == p.header.free_offset
        pushed == [p EXCEPT !.data = p.data \o data,
                            !.slots = Append(p.slots, <<off, data_len>>)]
    IN  IF data_len + slot_entry_size > 65535
        THEN [err |-> "Panic", val |-> 0, page |-> p]
        ELSE IF p.header.free_bytes < data_len + slot_entry_size
        THEN [err |-> "Other", val |-> 0, page |-> p]
        ELSE IF p.header.slot_count + 1 > 65535
        THEN [err |-> "Panic", val |-> 0, page |-> pushed]
        ELSE IF p.header.free_offset + data_len > 65535
        THEN [err |-> "Panic", val |-> 0,
              page |-> [pushed EXCEPT !.header.slot_count = @ + 1]]
        ELSE [err |-> "Ok",
              val |-> U16(Len(p.slots)),
              page |-> [pushed EXCEPT
                          !.header.slot_count = @ + 1,
                          !.header.free_offset = @ + data_len,
                          !.header.free_bytes = @ - data_len - slot_entry_size]]

\* get_record: [err, bytes]; slot ids count from 0
GetRecord(p, slot_id) ==
    IF slot_id >= Len(p.slots) THEN [err |-> "InvalidInput", bytes |-> <<>>]
    ELSE LET off == p.slots[slot_id + 1][1]
             len == p.slots[slot_id + 1][2]
             start == SaturatingSub(off, PAGE_HDR_SIZE)
             end == start + len
         IN  IF len = 0 THEN [err |-> "NotFound", bytes |-> <<>>]
             ELSE IF end > Len(p.data) THEN [err |-> "UnexpectedEof", bytes |-> <<>>]
             ELSE [err |-> "Ok", bytes |-> SubSeq(p.data, start + 1, end)]

\* a delete_record that does not look for the tombstone mark
DeleteRecordAgain(p, slot_id) ==
    IF slot_id >= Len(p.slots) THEN [err |-> "InvalidInput", page |-> p]
    ELSE LET len == p.slots[slot_id + 1][2]
             slot_entry_size == 4
         IN  [err |-> "Ok",
              page |-> [p EXCEPT
                          !.header.free_bytes = U16(@ + U16(len + slot_entry_size)),
                          !.slots[slot_id + 1] = <<0, 0>>,
                          !.header.slot_count = U16(@ - 1)]]

\* delete_record: [err, page]
DeleteRecord(p, slot_id) ==
    IF slot_id >= Len(p.slots) THEN [err |-> "InvalidInput", page |-> p]
    ELSE LET len == p.slots[slot_id + 1][2]
             slot_entry_size == 4
         IN  IF len = 0 THEN [err |-> "NotFound", page |-> p]
             ELSE [err |-> "Ok",
                   page |-> [p EXCEPT
                               !.header.free_bytes = U16(@ + U16(len + slot_entry_size)),
                               !.slots[slot_id + 1] = <<0, 0>>,
                               !.header.slot_count = U16(@ - 1)]]

\* the loop of compact over the old slots, from entry i: [data, slots]
RECURSIVE CompactFrom(_, _, _, _)
CompactFrom(p, i, new_data, new_slots) ==
    IF i > Len(p.slots) THEN [data |-> new_data, slots |-> new_slots]
    ELSE LET off == p.slots[i][1]
             len == p.slots[i][2]
             start == SaturatingSub(off, PAGE_HDR_SIZE)
             end == start + len
             new_off == U16(PAGE_HDR_SIZE + U16(Len(new_data)))
         IN  IF len = 0 THEN CompactFrom(p, i + 1, new_data, new_slots)
             ELSE CompactFrom(p, i + 1, new_data \o SubSeq(p.data, start + 1, end),
                              Append(new_slots, <<new_off, len>>))

\* compact(page_size): the page after the call
Compact(p, page_size) ==
    LET new == CompactFrom(p, 1, <<>>, <<>>)
        slot_count == U16(Len(new.slots))
        free_offset == U16(PAGE_HDR_SIZE + U16(Len(new.data)))
        slot_dir_size == U16(Len(new.slots) * 4)
        free_bytes == U16(U16(U16(page_size) - free_offset) - slot_dir_size)
    IN  [header |-> [slot_count |-> slot_count, free_offset |-> free_offset,
                     free_bytes |-> free_bytes],
         data |-> new.data,
         slots |-> new.slots]

(***************************************************************************)
(* Page image in a frame: page.rs, page_header.rs                          *)
(***************************************************************************)
\* u16::to_le_bytes and u16::from_le_bytes
LoByte(n) == n % 256
HiByte(n) == (n \div 256) % 256
FromLe(lo, hi) == lo + 256 * hi

\* Page::flush into a zeroed frame of page_size bytes: [ok, frame]; the frame
\* is the sequence of its bytes, frame[i] the byte at offset i - 1
Flush(p, page_size) ==
    LET slot_count == Len(p.slots)
        slot_dir_size == slot_count * 4
        hdr == [p.header EXCEPT !.slot_count = U16(slot_count),
                                !.free_offset = U16(PAGE_HDR_SIZE + Len(p.data))]
        data_end == PAGE_HDR_SIZE + Len(p.data)
        slot_base == page_size - slot_dir_size
        ByteAt(o) ==
            IF o >= slot_base
            THEN LET e == p.slots[((o - slot_base) \div 4) + 1]
                     j == (o - slot_base) % 4
                 IN  IF j = 0 THEN LoByte(e[1])
                     ELSE IF j = 1 THEN HiByte(e[1])
                     ELSE IF j = 2 THEN LoByte(e[2])
                     ELSE HiByte(e[2])
            ELSE IF o = 0 THEN LoByte(hdr.slot_count)
            ELSE IF o = 1 THEN HiByte(hdr.slot_count)
            ELSE IF o = 2 THEN LoByte(hdr.free_offset)
            ELSE IF o = 3 THEN HiByte(hdr.free_offset)
            ELSE IF o = 4 THEN LoByte(hdr.free_bytes)
            ELSE IF o = 5 THEN HiByte(hdr.free_bytes)
            ELSE IF o < data_end THEN p.data[o - PAGE_HDR_SIZE + 1]
            ELSE 0
    IN  IF page_size < PAGE_HDR_SIZE + Len(p.data) + slot_dir_size
        THEN [ok |-> FALSE, frame |-> [i \in 1..page_size |-> 0]]
        ELSE [ok |-> TRUE, frame |-> [i \in 1..page_size |-> ByteAt(i - 1)]]

\* Page::load of a frame: [ok, page]
Load(frame) ==
    LET page_size == Len(frame)
        header == [slot_count |-> FromLe(frame[1], frame[2]),
                   free_offset |-> FromLe(frame[3], frame[4]),
                   free_bytes |-> FromLe(frame[5], frame[6])]
        slot_count == header.slot_count
        slot_dir_size == slot_count * 4
        slot_base == page_size - slot_dir_size
        data_end == header.free_offset
        none == [header |-> header, data |-> <<>>, slots |-> <<>>]
    IN  IF page_size < PAGE_HDR_SIZE + slot_dir_size THEN [ok |-> FALSE, page |-> none]
        ELSE IF data_end < PAGE_HDR_SIZE \/ data_end > page_size - slot_dir_size
        THEN [ok |-> FALSE, page |-> none]
        ELSE [ok |-> TRUE,
              page |-> [header |-> header,
                        data |-> SubSeq(frame, PAGE_HDR_SIZE + 1, data_end),
                        slots |-> [k \in 1..slot_count |->
                                     <<FromLe(frame[slot_base + 4 * (k - 1) + 1],
                                              frame[slot_base + 4 * (k - 1) + 2]),
                                       FromLe(frame[slot_base + 4 * (k - 1) + 3],
                                              frame[slot_base + 4 * (k - 1) + 4])>>]]]

\* Page::flush into a frame that already holds bytes: only the header, the
\* data area and the slot directory are written
FlushInto(p, frame) ==
    LET page_size == Len(frame)
        slot_count == Len(p.slots)
        slot_dir_size == slot_count * 4
        hdr == [p.header EXCEPT !.slot_count = U16(slot_count),
                                !.free_offset = U16(PAGE_HDR_SIZE + Len(p.data))]
        data_end == PAGE_HDR_SIZE + Len(p.data)
        slot_base == page_size - slot_dir_size
        slot_dir == [j \in 1..slot_dir_size |->
                       LET e == p.slots[((j - 1) \div 4) + 1]
                           k == (j - 1) % 4
                       IN  IF k = 0 THEN LoByte(e[1])
                           ELSE IF k = 1 THEN HiByte(e[1])
                           ELSE IF k = 2 THEN LoByte(e[2])
                           ELSE HiByte(e[2])]
    IN  IF page_size < PAGE_HDR_SIZE + Len(p.data) + slot_dir_size
        THEN [ok |-> FALSE, frame |-> frame]
        ELSE [ok |-> TRUE,
              frame |-> <<LoByte(hdr.slot_count), HiByte(hdr.slot_count),
                          LoByte(hdr.free_offset), HiByte(hdr.free_offset),
                          LoByte(hdr.free_bytes), HiByte(hdr.free_bytes)>>
                        \o p.data
                        \o SubSeq(frame, data_end + 1, slot_base)
                        \o slot_dir]

(***************************************************************************)
(* Frame bytes of a block: page_guard.rs Deref, fm_page_header.rs          *)
(***************************************************************************)
\* byte k of the little-endian two's-complement image of a 32-bit word
WordByte(n, k) ==
    IF k = 0 THEN n % 256
    ELSE IF k = 1 THEN (n \div 256) % 256
    ELSE IF k = 2 THEN (n \div 65536) % 256
    ELSE (n \div 16777216) % 256

\* u32::from_le_bytes and i32::from_le_bytes of the four bytes at offset o
U32At(frame, o) ==
    frame[o + 1] + 256 * frame[o + 2] + 65536 * frame[o + 3] + 16777216 * frame[o + 4]
I32At(frame, o) ==
    frame[o + 1] + 256 * frame[o + 2] + 65536 * frame[o + 3]
    + 16777216 * (IF frame[o + 4] >= 128 THEN frame[o + 4] - 256 ELSE frame[o + 4])

\* a zeroed buffer of one block
ZeroFrame == [i \in 1..BLOCK_SIZE |-> 0]

\* the bytes a guard derefs to for a frame holding the block: the three
\* leading words, zeroes, and the last word of the block
BlockToFrame(block, size) ==
    <<WordByte(block.next, 0), WordByte(block.next, 1),
      WordByte(block.next, 2), WordByte(block.next, 3),
      WordByte(block.prev, 0), WordByte(block.prev, 1),
      WordByte(block.prev, 2), WordByte(block.prev, 3),
      WordByte(block.fb, 0), WordByte(block.fb, 1),
      WordByte(block.fb, 2), WordByte(block.fb, 3)>>
    \o SubSeq(ZeroFrame, 1, size - 16)
    \o <<WordByte(block.body, 0), WordByte(block.body, 1),
         WordByte(block.body, 2), WordByte(block.body, 3)>>

\* the block a frame's bytes are, read back as words
FrameToBlock(frame) ==
    [next |-> I32At(frame, 0), prev |-> I32At(frame, 4), fb |-> U32At(frame, 8),
     body |-> U32At(frame, Len(frame) - 4)]

(***************************************************************************)
(* Table facade: rm_manager.rs                                             *)
(***************************************************************************)
\* the pool, the file and the fetch history the facade's calls run over
TM == [bm |-> BM, fs |-> FS, rec |-> recency]

\* `let v = e; F(v)`: e is evaluated once and F runs on its value
Bind(e, F(_)) == CHOOSE y \in {F(v) : v \in {e}} : TRUE

\* self.buf_mgr.fetch(block) with no I/O failure: [res, idx, st]
TableFetch(st, block) ==
    Bind(Fetch(st.bm, st.fs, block, "ok"), LAMBDA r :
        LET rec1 == IF r.evicted # 0 THEN RemoveFirst(st.rec, r.evicted) ELSE st.rec
        IN  [res |-> r.res, idx |-> r.idx,
             st |-> [bm |-> r.bm, fs |-> r.fs,
                     rec |-> IF r.res \in {"hit", "miss"}
                             THEN Touch(rec1, r.idx) ELSE rec1]])

\* the guard going out of scope: PageGuard::drop unpins its block
DropFrame(st, block) == [st EXCEPT !.bm = Unpin(st.bm, block)]

\* TableManager::insert: [err, rid, st]; a record no longer than the bounds
\* here is inserted alike by every build
TableInsert(st, data) ==
    Bind(AllocateDataPage(st.bm, st.fs), LAMBDA a :
    IF ~a.ok THEN [err |-> "Alloc", rid |-> <<0, 0>>, st |-> [st EXCEPT !.fs = a.fs]]
    ELSE
    Bind(TableFetch([st EXCEPT !.bm = a.bm, !.fs = a.fs], a.val), LAMBDA f :
    IF f.res \notin {"hit", "miss"} THEN [err |-> f.res, rid |-> <<0, 0>>, st |-> f.st]
    ELSE
    Bind(BlockToFrame(f.st.bm.frames[f.idx].data, HandleBlockSize), LAMBDA frame :
    Bind(Load(frame), LAMBDA l :
    IF ~l.ok THEN [err |-> "Load", rid |-> <<0, 0>>, st |-> DropFrame(f.st, a.val)]
    ELSE
    Bind(InsertRecord(l.page, data), LAMBDA i :
    IF i.err # "Ok" THEN [err |-> i.err, rid |-> <<0, 0>>, st |-> DropFrame(f.st, a.val)]
    ELSE
    Bind(FlushInto(i.page, frame), LAMBDA w :
    IF ~w.ok THEN [err |-> "Flush", rid |-> <<0, 0>>, st |-> DropFrame(f.st, a.val)]
    ELSE
    Bind(DropFrame([f.st EXCEPT !.bm.frames[f.idx].data = FrameToBlock(w.frame)], a.val),
         LAMBDA dropped :
    [err |-> "Ok", rid |-> <<a.val, i.val>>,
     st |-> [dropped EXCEPT !.bm = Unpin(MarkDirty(dropped.bm, a.val), a.val)]])))))))

\* TableManager::get: [err, bytes, st]
TableGet(st, rid) ==
    Bind(TableFetch(st, rid[1]), LAMBDA f :
    IF f.res \notin {"hit", "miss"} THEN [err |-> f.res, bytes |-> <<>>, st |-> f.st]
    ELSE
    Bind(DropFrame(f.st, rid[1]), LAMBDA dropped :
    Bind(Load(BlockToFrame(f.st.bm.frames[f.idx].data, HandleBlockSize)), LAMBDA l :
    IF ~l.ok THEN [err |-> "Load", bytes |-> <<>>, st |-> dropped]
    ELSE
    Bind(GetRecord(l.page, rid[2]), LAMBDA g :
    IF g.err # "Ok" THEN [err |-> g.err, bytes |-> <<>>, st |-> dropped]
    ELSE [err |-> "Ok", bytes |-> g.bytes,
          st |-> [dropped EXCEPT !.bm = Unpin(dropped.bm, rid[1])]]))))

\* the slots of a loaded page whose get_record is Ok, in order
RECURSIVE ValidSlots(_, _)
ValidSlots(p, slot) ==
    IF slot >= p.header.slot_count THEN <<>>
    ELSE (IF GetRecord(p, slot).err = "Ok" THEN <<slot>> ELSE <<>>)
         \o ValidSlots(p, slot + 1)

\* TableManager::scan over the blocks first..last: [err, rids, st]
RECURSIVE TableScan(_, _, _)
TableScan(st, first, last) ==
    IF first > last THEN [err |-> "Ok", rids |-> <<>>, st |-> st]
    ELSE
    Bind(TableFetch(st, first), LAMBDA f :
    IF f.res \notin {"hit", "miss"} THEN [err |-> f.res, rids |-> <<>>, st |-> f.st]
    ELSE
    Bind(DropFrame(f.st, first), LAMBDA dropped :
    Bind(Load(BlockToFrame(f.st.bm.frames[f.idx].data, HandleBlockSize)), LAMBDA l :
    IF ~l.ok THEN [err |-> "Load", rids |-> <<>>, st |-> dropped]
    ELSE
    Bind(ValidSlots(l.page, 0), LAMBDA valid :
    Bind(TableScan([dropped EXCEPT !.bm = Unpin(dropped.bm, first)], first + 1, last),
         LAMBDA rest :
    [err |-> rest.err,
     rids |-> IF rest.err = "Ok"
              THEN [k \in 1..Len(valid) |-> <<first, valid[k]>>] \o rest.rids
              ELSE <<>>,
     st |-> rest.st])))))

(***************************************************************************)
(* File-handle actions                                                     *)
(***************************************************************************)
\* the handle's fields and the file's blocks after a call; every block the
\* model reaches lies inside the preallocated file, whose length stays
SetFS(fs) ==
    /\ blk_cnt' = fs.blk_cnt
    /\ first_free_hole' = fs.first_free_hole
    /\ header_dirty' = fs.header_dirty
    /\ disk' = fs.disk
    /\ file_len' = file_len

\* align_prealloc
AlignPrealloc(block_size, preallocate_bytes) ==
    LET min_size == block_size
        prealloc == IF preallocate_bytes > min_size THEN preallocate_bytes ELSE min_size
        remainder == prealloc % block_size
    IN  IF remainder # 0 THEN prealloc + (block_size - remainder) ELSE prealloc

\* the length create_table_file gives a file under FileManagerConfig::default()
DefaultFileLen ==
    AlignPrealloc(DEFAULT_BLOCK_SIZE, DEFAULT_BLOCK_SIZE * DEFAULT_PREALLOC_BLOCKS)

SetBM(bm) ==
    /\ frames' = bm.frames
    /\ map' = bm.map
    /\ lru_list' = bm.lru_list

NoGuards == [g \in Blocks \X BOOLEAN |-> 0]

\* BufferManager::new: every slot empty
EmptyPool ==
    /\ frames = [i \in Slots |-> None]
    /\ map = <<>>
    /\ lru_list = <<>>
    /\ guards = NoGuards
    /\ recency = <<>>
    /\ pc = "idle"

\* no page is being edited
NoPage == page = EmptyPage(PageSize)

\* a newly created file opened by open_file: only the header block is in use
InitFM ==
    /\ blk_cnt = 1
    /\ first_free_hole = -1
    /\ header_dirty = FALSE
    /\ file_len = DefaultFileLen
    /\ disk = [b \in AllBlocks |-> IF b = 0 THEN HeaderBlock(1, -1) ELSE ZeroBlock]
    /\ live = {}
    /\ EmptyPool
    /\ NoPage
    /\ ret = [op |-> "open_file", arg |-> 0, ok |-> TRUE, val |-> 0, wb |-> FALSE]

DoAllocateBlock ==
    \E r \in {AllocateBlock(FS)} :
    /\ r.fs.blk_cnt <= MaxBlocks
    /\ SetFS(r.fs)
    /\ live' = IF r.ok THEN live \cup {r.val} ELSE live
    /\ ret' = [op |-> "allocate_block", arg |-> 0, ok |-> r.ok, val |-> r.val,
               wb |-> FALSE]
    /\ UNCHANGED <<bmVars, page>>

DoAllocateBlockWithSpace ==
    \E m \in MinFreeArgs \ {0} :
        \E r \in {AllocateBlockWithSpace(FS, m)} :
        /\ r.fs.blk_cnt <= MaxBlocks
        /\ SetFS(r.fs)
        /\ live' = IF r.ok THEN live \cup {r.val} ELSE live
        /\ ret' = [op |-> "allocate_block_with_space", arg |-> m, ok |-> r.ok,
                   val |-> r.val, wb |-> FALSE]
        /\ UNCHANGED <<bmVars, page>>

DoFreeBlock ==
    \E n \in BlockArgs :
        \E r \in {FreeBlock(FS, n)} :
        /\ SetFS(r.fs)
        /\ live' = IF r.ok THEN live \ {n} ELSE live
        /\ ret' = [op |-> "free_block", arg |-> n, ok |-> r.ok, val |-> 0,
                   wb |-> FALSE]
        /\ UNCHANGED <<bmVars, page>>

DoUpdateFreeBytes ==
    \E n \in BlockArgs \ {0}, k \in FreeBytesArgs :
        \E r \in {UpdateFreeBytes(FS, n, k)} :
        /\ SetFS(r.fs)
        /\ live' = live
        /\ ret' = [op |-> "update_free_bytes", arg |-> n, ok |-> r.ok, val |-> k,
                   wb |-> FALSE]
        /\ UNCHANGED <<bmVars, page>>

NextFM ==
    \/ DoAllocateBlock
    \/ DoAllocateBlockWithSpace
    \/ DoFreeBlock
    \/ DoUpdateFreeBytes

\* every file-handle operation that touches the free list
SpecFM == InitFM /\ [][NextFM]_vars

NextAlloc ==
    \/ DoAllocateBlock
    \/ DoFreeBlock

\* allocate_block and free_block alone
SpecAlloc == InitFM /\ [][NextAlloc]_vars

\* the outcome of a call run statement by statement: the call stopped at an
\* I/O error exactly when it failed with its fail_at-th read or write issued
IoFailed(r, fail_at) == ~r.ok /\ fail_at # 0 /\ r.n = fail_at

SetCall(r, fail_at) ==
    /\ SetFS(r.fs)
    /\ pc' = IF IoFailed(r, fail_at) THEN "io_failed" ELSE "idle"
    /\ UNCHANGED <<frames, map, lru_list, guards, recency, page>>

IoFailArgs == 0..MaxIo

DoAllocateBlockIo ==
    \E fail_at \in IoFailArgs :
        \E r \in {AllocateBlockWithSpaceIo(FS, 0, fail_at)} :
        /\ pc = "idle"
        /\ r.fs.blk_cnt <= MaxBlocks
        /\ SetCall(r, fail_at)
        /\ live' = IF r.ok THEN live \cup {r.val} ELSE live
        /\ ret' = [op |-> "allocate_block", arg |-> 0, ok |-> r.ok, val |-> r.val,
                   wb |-> FALSE]

DoFreeBlockIo ==
    \E n \in BlockArgs, fail_at \in IoFailArgs :
        \E r \in {FreeBlockIo(FS, n, fail_at)} :
        /\ pc = "idle"
        /\ SetCall(r, fail_at)
        /\ live' = IF r.ok THEN live \ {n} ELSE live
        /\ ret' = [op |-> "free_block", arg |-> n, ok |-> r.ok, val |-> 0,
                   wb |-> FALSE]

DoUpdateFreeBytesIo ==
    \E n \in BlockArgs \ {0}, k \in FreeBytesArgs, fail_at \in IoFailArgs :
        \E r \in {UpdateFreeBytesIo(FS, n, k, fail_at)} :
        /\ pc = "idle"
        /\ SetCall(r, fail_at)
        /\ live' = live
        /\ ret' = [op |-> "update_free_bytes", arg |-> n, ok |-> r.ok, val |-> k,
                   wb |-> FALSE]

NextIo ==
    \/ DoAllocateBlockIo
    \/ DoFreeBlockIo
    \/ DoUpdateFreeBytesIo

\* the free-list operations with I/O errors: any read or write of a call may
\* fail, and the handle is not used again after a call that failed that way
SpecIo == InitFM /\ [][NextIo]_vars

\* buffers a caller hands to write_block: the image allocate_data_page writes
\* (a slotted-page header, zero padded) and a block of payload whose first
\* words read as an unlinked free-list header
WriteArgs == {[next |-> 0 + PAGE_HDR_SIZE * 65536, prev |-> BLOCK_SIZE - PAGE_HDR_SIZE,
               fb |-> 0, body |-> 0],
              [next |-> -1, prev |-> -1, fb |-> 0, body |-> 1]}

DoWriteBlock ==
    \E n \in BlockArgs, data \in WriteArgs :
        \E r \in {TryWriteBlock(FS, n, data)} :
        /\ SetFS(r.fs)
        /\ ret' = [op |-> "write_block", arg |-> n, ok |-> r.ok, val |-> 0,
                   wb |-> FALSE]
        /\ UNCHANGED <<live, bmVars, page>>

\* the value kept of the buffer is its first 32-bit word
DoReadBlock ==
    \E n \in BlockArgs :
        \E r \in {TryReadBlock(FS, n)} :
        /\ SetFS(r.fs)
        /\ ret' = [op |-> "read_block", arg |-> n, ok |-> r.ok, val |-> r.data.next,
                   wb |-> FALSE]
        /\ UNCHANGED <<live, bmVars, page>>

NextRaw ==
    \/ DoAllocateBlock
    \/ DoFreeBlock
    \/ DoWriteBlock
    \/ DoReadBlock

\* a caller that allocates and frees blocks and reads and writes them whole
SpecRaw == InitFM /\ [][NextRaw]_vars

\* update_free_bytes on block 0, which no test of the function refuses
DoUpdateFreeBytesZero ==
    \E k \in FreeBytesArgs :
        \E r \in {UpdateFreeBytes(FS, 0, k)} :
        /\ SetFS(r.fs)
        /\ live' = live
        /\ ret' = [op |-> "update_free_bytes", arg |-> 0, ok |-> r.ok, val |-> k,
                   wb |-> FALSE]
        /\ UNCHANGED <<bmVars, page>>

NextZero ==
    \/ DoAllocateBlock
    \/ DoFreeBlock
    \/ DoUpdateFreeBytesZero

\* the file handle under allocate_block, free_block and update_free_bytes
\* of block 0
SpecZero == InitFM /\ [][NextZero]_vars

(***************************************************************************)
(* File manager: fm_manager.rs                                             *)
(***************************************************************************)
\* the path holds no file, and no handle is open: a handle has blk_cnt >= 1
NoFile ==
    /\ file_len = -1
    /\ disk = [b \in AllBlocks |-> ZeroBlock]
    /\ blk_cnt = 0
    /\ first_free_hole = -1
    /\ header_dirty = FALSE

\* create_table_file under a config (block_size, preallocate_bytes), on a path
\* whose file has length len (-1: none) and blocks d: [err, file_len, disk].
\* create_new refuses an existing path; set_len gives a file of zeros;
\* initialize_file slices FileHeader::BYTE_SIZE bytes of a block_size buffer,
\* which panics when the buffer is shorter, and writes the buffer at offset 0
CreateTableFile(len, d, block_size, preallocate_bytes) ==
    IF len >= 0 THEN [err |-> "AlreadyExists", file_len |-> len, disk |-> d]
    ELSE LET aligned_size == AlignPrealloc(block_size, preallocate_bytes)
             zeros == [b \in AllBlocks |-> ZeroBlock]
         IN  IF block_size < FileHeaderByteSize
             THEN [err |-> "Panic", file_len |-> aligned_size, disk |-> zeros]
             ELSE [err |-> "Ok", file_len |-> aligned_size,
                   disk |-> [zeros EXCEPT ![0] = HeaderBlock(1, -1)]]

\* open_file under a config with the given block_size: [err, fs]
OpenFileAt(len, fs, block_size) ==
    IF len < 0 THEN [err |-> "NotFound", fs |-> fs]
    ELSE IF len < block_size THEN [err |-> "InvalidData", fs |-> fs]
    ELSE IF len < FileHeaderByteSize THEN [err |-> "UnexpectedEof", fs |-> fs]
    ELSE IF block_size < FileHeaderByteSize THEN [err |-> "InvalidInput", fs |-> fs]
    ELSE [err |-> "Ok", fs |-> OpenFile(fs)]

\* configurations tried: a block size below the header's 16 bytes, the
\* default one, and preallocations below, at and off multiples of it
BlockSizeArgs == {8, DEFAULT_BLOCK_SIZE}
PreallocArgs == {0, 1, DEFAULT_BLOCK_SIZE, DEFAULT_BLOCK_SIZE + 1,
                 DEFAULT_BLOCK_SIZE * DEFAULT_PREALLOC_BLOCKS}

\* ret keeps preallocate_bytes as arg and block_size as val
DoCreateTableFile ==
    \E block_size \in BlockSizeArgs, preallocate_bytes \in PreallocArgs :
    \E r \in {CreateTableFile(file_len, disk, block_size, preallocate_bytes)} :
        /\ file_len' = r.file_len
        /\ disk' = r.disk
        /\ ret' = [op |-> "create_table_file", arg |-> preallocate_bytes,
                   ok |-> r.err = "Ok", val |-> block_size, wb |-> FALSE]
        /\ UNCHANGED <<blk_cnt, first_free_hole, header_dirty, live, bmVars, page>>

\* open_file; the handle opened before, if any, is dropped first
DoOpenFile ==
    \E block_size \in BlockSizeArgs :
    \E r \in {OpenFileAt(file_len, DropHandle(FS), block_size)} :
        /\ blk_cnt' = IF r.err = "Ok" THEN r.fs.blk_cnt ELSE 0
        /\ first_free_hole' = IF r.err = "Ok" THEN r.fs.first_free_hole ELSE -1
        /\ header_dirty' = FALSE
        /\ disk' = r.fs.disk
        /\ ret' = [op |-> "open_file", arg |-> 0, ok |-> r.err = "Ok",
                   val |-> block_size, wb |-> FALSE]
        /\ UNCHANGED <<file_len, live, bmVars, page>>

\* delete_file, after the handle was dropped
DoDeleteFile ==
    /\ file_len' = -1
    /\ disk' = [b \in AllBlocks |-> ZeroBlock]
    /\ blk_cnt' = 0
    /\ first_free_hole' = -1
    /\ header_dirty' = FALSE
    /\ ret' = [op |-> "delete_file", arg |-> 0, ok |-> TRUE, val |-> 0, wb |-> FALSE]
    /\ UNCHANGED <<live, bmVars, page>>

InitCreate ==
    /\ NoFile
    /\ live = {}
    /\ EmptyPool
    /\ NoPage
    /\ ret = [op |-> "new", arg |-> 0, ok |-> TRUE, val |-> 0, wb |-> FALSE]

NextCreate ==
    \/ DoCreateTableFile
    \/ DoOpenFile
    \/ DoDeleteFile

\* one path under create_table_file, open_file and delete_file
SpecCreate == InitCreate /\ [][NextCreate]_vars

\* the handle goes out of scope and the file is opened again
DoReopen ==
    /\ SetFS(OpenFile(DropHandle(FS)))
    /\ ret' = [op |-> "open_file", arg |-> 0, ok |-> TRUE, val |-> 0, wb |-> FALSE]
    /\ UNCHANGED <<live, bmVars, page>>

NextReopen ==
    \/ DoAllocateBlock
    \/ DoFreeBlock
    \/ DoReopen

\* allocate_block and free_block on a handle that is dropped and reopened
SpecReopen == InitFM /\ [][NextReopen]_vars

(***************************************************************************)
(* Buffer-manager actions                                                  *)
(***************************************************************************)
\* a pool over a reopened file of cnt blocks, its data blocks allocated
InitPool(cnt) ==
    /\ blk_cnt = cnt
    /\ first_free_hole = -1
    /\ header_dirty = FALSE
    /\ file_len = DefaultFileLen
    /\ disk = [b \in AllBlocks |->
                 IF b = 0 THEN HeaderBlock(cnt, -1)
                 ELSE IF b < cnt THEN BlockOf(NewFree) ELSE ZeroBlock]
    /\ live = 1..(cnt - 1)
    /\ EmptyPool
    /\ NoPage
    /\ ret = [op |-> "new", arg |-> 0, ok |-> TRUE, val |-> 0, wb |-> FALSE]

\* room left in the file for allocate_data_page to append a block
InitBM == InitPool(MaxBlocks - 1)

\* more data blocks in the file than the pool has frames
InitBMWrite == InitPool(MaxBlocks)

TotalGuards ==
    LET RECURSIVE Sum(_)
        Sum(S) == IF S = {} THEN 0
                  ELSE LET g == CHOOSE x \in S : TRUE IN guards[g] + Sum(S \ {g})
    IN  Sum(DOMAIN guards)

\* the guards over the frame that held block b now point at a dropped buffer
Dangle(g, b) ==
    IF b \in Blocks
    THEN [g EXCEPT ![<<b, FALSE>>] = @ + g[<<b, TRUE>>], ![<<b, TRUE>>] = 0]
    ELSE g

\* one fetch(b) call that returns; ret keeps its argument, whether a guard
\* was returned, the slot whose frame it evicted (0: none) and whether that
\* frame was dirty
FetchStep(b, io) ==
    \E r \in {Fetch(BM, FS, b, io)} :
    LET got == r.res \in {"hit", "miss"}
        gone == IF r.evicted # 0 THEN frames[r.evicted].block_id ELSE -1
    IN  /\ pc = "idle"
        /\ r.res # "spin"
        /\ got => TotalGuards < MaxGuards
        /\ Len(r.bm.lru_list) <= MaxLru
        /\ SetBM(r.bm)
        /\ SetFS(r.fs)
        /\ guards' = IF got THEN [Dangle(guards, gone) EXCEPT ![<<b, TRUE>>] = @ + 1]
                     ELSE Dangle(guards, gone)
        /\ recency' = LET rec1 == IF r.evicted # 0
                                  THEN RemoveFirst(recency, r.evicted) ELSE recency
                      IN  IF got THEN Touch(rec1, r.idx) ELSE rec1
        /\ ret' = [op |-> "fetch", arg |-> b, ok |-> got, val |-> r.evicted,
                   wb |-> (r.evicted # 0 /\ frames[r.evicted].dirty)]
        /\ UNCHANGED <<page, live, pc>>

IoArgs == {"ok", "write_fails", "read_fails"}

DoFetch == \E b \in PoolArgs, io \in IoArgs : FetchStep(b, io)

\* fetch of a non-resident block when every slot is taken and pinned: the
\* victim loop is entered and its first iteration moves the front to the back
FetchSpinStep(b) ==
    /\ pc = "idle"
    /\ Fetch(BM, FS, b, "ok").res = "spin"
    /\ pc' = "fetch"
    /\ lru_list' = Append(Tail(lru_list), Head(lru_list))
    /\ UNCHANGED <<page, fmVars, frames, map, guards, recency, ret>>

DoFetchSpin == \E b \in PoolArgs : FetchSpinStep(b)

\* one more iteration of the victim loop of a fetch that cannot find a victim
DoFetchLoop ==
    /\ pc = "fetch"
    /\ lru_list' = Append(Tail(lru_list), Head(lru_list))
    /\ UNCHANGED <<page, fmVars, frames, map, guards, recency, pc, ret>>

UnpinStep(b) ==
    /\ pc = "idle"
    /\ SetBM(Unpin(BM, b))
    /\ UNCHANGED <<page, fmVars, guards, recency, pc, ret>>

DoUnpin == \E b \in PoolArgs : UnpinStep(b)

MarkDirtyStep(b) ==
    /\ pc = "idle"
    /\ SetBM(MarkDirty(BM, b))
    /\ UNCHANGED <<page, fmVars, guards, recency, pc, ret>>

DoMarkDirty == \E b \in PoolArgs : MarkDirtyStep(b)

\* one flush_all call; fail_at is the slot whose write fails (0: none)
FlushAllStep(fail_at) ==
    \E r \in {FlushAll(BM, FS, fail_at)} :
        /\ pc = "idle"
        /\ SetBM(r.bm)
        /\ SetFS(r.fs)
        /\ ret' = [op |-> "flush_all", arg |-> 0, ok |-> r.ok, val |-> 0, wb |-> FALSE]
        /\ UNCHANGED <<page, live, guards, recency, pc>>

DoFlushAll == \E fail_at \in 0..Capacity : FlushAllStep(fail_at)

DoAllocateDataPage ==
    \E r \in {AllocateDataPage(BM, FS)} :
    /\ pc = "idle"
    /\ r.fs.blk_cnt <= MaxBlocks
    /\ SetBM(r.bm)
    /\ SetFS(r.fs)
    /\ live' = IF r.ok THEN live \cup {r.val} ELSE live
    /\ UNCHANGED <<page, guards, recency, pc, ret>>

FreePageStep(b) ==
    LET idx == FindFrame(BM, b) IN
    /\ pc = "idle"
    /\ SetBM(FreePage(BM, b))
    /\ guards' = IF idx # 0 THEN Dangle(guards, b) ELSE guards
    /\ recency' = IF idx # 0 THEN RemoveFirst(recency, idx) ELSE recency
    /\ UNCHANGED <<page, fmVars, pc, ret>>

DoFreePage == \E b \in PoolArgs : FreePageStep(b)

\* impl Drop for PageGuard: unpin(block_id), whatever became of the frame
DoDropGuard ==
    \E g \in DOMAIN guards :
        /\ pc = "idle"
        /\ guards[g] > 0
        /\ guards' = [guards EXCEPT ![g] = @ - 1]
        /\ SetBM(Unpin(BM, g[1]))
        /\ UNCHANGED <<page, fmVars, recency, pc, ret>>

\* DerefMut of a guard whose frame is still the one it was made for
DoGuardWrite ==
    \E b \in Blocks, v \in Vals :
        /\ pc = "idle"
        /\ guards[<<b, TRUE>>] > 0
        /\ frames' = [frames EXCEPT ![map[b]].data.body = v]
        /\ UNCHANGED <<page, fmVars, map, lru_list, guards, recency, pc, ret>>

NextBM ==
    \/ DoFetch
    \/ DoFetchSpin
    \/ DoFetchLoop
    \/ DoUnpin
    \/ DoMarkDirty
    \/ DoFlushAll
    \/ DoAllocateDataPage
    \/ DoFreePage
    \/ DoDropGuard

\* the buffer manager over its file handle: every pool operation and the
\* drops of guards, the frames' bytes left as read
SpecBM == InitBM /\ [][NextBM]_vars

NextBMWrite ==
    \/ DoFetch
    \/ DoMarkDirty
    \/ DoFlushAll
    \/ DoDropGuard
    \/ DoGuardWrite

\* the buffer manager with writes through guards: the calls of a client
\* that releases its pins by dropping its guards
SpecBMWrite == InitBMWrite /\ [][NextBMWrite]_vars

\* the pool and its handle go out of scope with no guard alive, the file is
\* opened again and a new pool is built over it
DoReopenPool ==
    /\ pc = "idle"
    /\ TotalGuards = 0
    /\ SetFS(OpenFile(DropHandle(FS)))
    /\ SetBM([frames |-> [i \in Slots |-> None], map |-> <<>>, lru_list |-> <<>>])
    /\ recency' = <<>>
    /\ ret' = [op |-> "new", arg |-> 0, ok |-> TRUE, val |-> 0, wb |-> FALSE]
    /\ UNCHANGED <<page, live, guards, pc>>

\* test_buffer_manager: a new pool whose handle has just appended the last
\* block with allocate_block, the header on disk not yet rewritten
InitFlush ==
    /\ blk_cnt = MaxBlocks - 1
    /\ first_free_hole = -1
    /\ header_dirty = TRUE
    /\ file_len = DefaultFileLen
    /\ disk = [b \in AllBlocks |->
                 IF b = 0 THEN HeaderBlock(MaxBlocks - 2, -1) ELSE BlockOf(NewFree)]
    /\ live = 1..(MaxBlocks - 2)
    /\ EmptyPool
    /\ NoPage
    /\ ret = [op |-> "allocate_block", arg |-> 0, ok |-> TRUE, val |-> MaxBlocks - 2,
              wb |-> FALSE]

NextFlush ==
    \/ DoFetch
    \/ DoMarkDirty
    \/ DoFlushAll
    \/ DoDropGuard
    \/ DoGuardWrite
    \/ DoReopenPool

\* writes through guards, flush_all and reopening of the file
SpecFlush == InitFlush /\ [][NextFlush]_vars

(***************************************************************************)
(* Slotted-page actions                                                    *)
(***************************************************************************)
\* the record of n bytes: every byte is n, so each length has its own bytes
Rec(n) == [i \in 1..n |-> n]

SlotArgs == 0..(PageSize \div 4)

\* the page of test_page_ops, empty, over an untouched file and pool
InitPage == InitFM

DoInsertRecord ==
    \E n \in 0..MaxRecLen :
    \E r \in {InsertRecord(page, Rec(n))} :
        /\ Len(r.page.data) <= MaxData
        /\ page' = r.page
        /\ ret' = [op |-> "insert_record", arg |-> n, ok |-> r.err = "Ok",
                   val |-> r.val, wb |-> FALSE]
        /\ UNCHANGED <<fmVars, bmVars>>

DoGetRecord ==
    \E s \in SlotArgs :
        /\ ret' = [op |-> "get_record", arg |-> s, ok |-> GetRecord(page, s).err = "Ok",
                   val |-> Len(GetRecord(page, s).bytes), wb |-> FALSE]
        /\ UNCHANGED <<fmVars, bmVars, page>>

DoDeleteRecord ==
    \E s \in SlotArgs :
    \E r \in {DeleteRecord(page, s)} :
        /\ page' = r.page
        /\ ret' = [op |-> "delete_record", arg |-> s, ok |-> r.err = "Ok",
                   val |-> 0, wb |-> FALSE]
        /\ UNCHANGED <<fmVars, bmVars>>

DoCompact ==
    /\ page' = Compact(page, PageSize)
    /\ ret' = [op |-> "compact", arg |-> PageSize, ok |-> TRUE, val |-> 0, wb |-> FALSE]
    /\ UNCHANGED <<fmVars, bmVars>>

NextPage ==
    \/ DoInsertRecord
    \/ DoGetRecord
    \/ DoDeleteRecord
    \/ DoCompact

\* one page in memory under insert_record, get_record, delete_record, compact
SpecPage == InitPage /\ [][NextPage]_vars

\* test_page_ops: page.flush(&mut frame) into a new frame of page_size bytes,
\* then Page::load(&mut frame); the page itself is left as it is and ret keeps
\* whether both calls returned Ok and the slot count load decoded
DoFlushLoad ==
    \E f \in {Flush(page, PageSize)} :
    \E l \in {IF f.ok THEN Load(f.frame) ELSE [ok |-> FALSE, page |-> page]} :
        /\ ret' = [op |-> "flush_load", arg |-> PageSize, ok |-> l.ok,
                   val |-> Len(l.page.slots), wb |-> FALSE]
        /\ UNCHANGED <<fmVars, bmVars, page>>

NextRound ==
    \/ DoInsertRecord
    \/ DoDeleteRecord
    \/ DoCompact
    \/ DoFlushLoad

\* one page in memory, written to a frame and read back at any point
SpecRound == InitPage /\ [][NextRound]_vars

\* record lengths around the range of u16: data.len() is a usize
BigLens == {0, 1, 65531, 65532, 65535, 65536, 65537}

Builds == {"debug", "release"}

\* insert_record of a record of any length, in either build profile; a panic
\* ends the run
DoInsertBig ==
    \E n \in BigLens, build \in Builds :
    \E r \in {IF build = "debug" THEN InsertRecordChecked(page, Rec(n))
                                 ELSE InsertRecord(page, Rec(n))} :
        /\ pc = "idle"
        /\ Len(r.page.data) <= MaxBigData
        /\ page' = r.page
        /\ pc' = IF r.err = "Panic" THEN "panic" ELSE pc
        /\ ret' = [op |-> "insert_record", arg |-> n, ok |-> r.err = "Ok",
                   val |-> r.val, wb |-> FALSE]
        /\ UNCHANGED <<fmVars, frames, map, lru_list, guards, recency>>

DoGetBig ==
    \E s \in SlotArgs :
        /\ pc = "idle"
        /\ ret' = [op |-> "get_record", arg |-> s, ok |-> GetRecord(page, s).err = "Ok",
                   val |-> Len(GetRecord(page, s).bytes), wb |-> FALSE]
        /\ UNCHANGED <<fmVars, bmVars, page>>

NextBig ==
    \/ DoInsertBig
    \/ DoGetBig

\* one page in memory under insert_record with records of up to 64 KiB and more
SpecBig == InitPage /\ [][NextBig]_vars

(***************************************************************************)
(* Table-facade actions                                                    *)
(***************************************************************************)
\* the pool, the file and the fetch history after a facade call
SetTM(st) ==
    /\ SetBM(st.bm)
    /\ SetFS(st.fs)
    /\ recency' = st.rec

\* a table manager over a newly created file
InitTable == InitPool(1)

RecLens == 0..MaxRecLen

\* insert(data); ret keeps the record's length and the block of the RID
DoTableInsert ==
    /\ pc = "idle"
    /\ blk_cnt < MaxBlocks
    /\ \E n \in RecLens :
       \E r \in {TableInsert(TM, Rec(n))} :
          /\ Len(r.st.bm.lru_list) <= MaxLru
          /\ SetTM(r.st)
          /\ live' = IF r.st.fs.blk_cnt > blk_cnt THEN live \cup {blk_cnt} ELSE live
          /\ ret' = [op |-> "table_insert", arg |-> n, ok |-> r.err = "Ok",
                     val |-> r.rid[1], wb |-> FALSE]
          /\ UNCHANGED <<page, guards, pc>>

\* get(rid)
DoTableGet ==
    \E b \in Blocks, slot \in 0..1 :
    \E r \in {TableGet(TM, <<b, slot>>)} :
    /\ pc = "idle"
    /\ Len(r.st.bm.lru_list) <= MaxLru
    /\ SetTM(r.st)
    /\ ret' = [op |-> "table_get", arg |-> b, ok |-> r.err = "Ok",
               val |-> slot, wb |-> FALSE]
    /\ UNCHANGED <<page, guards, pc, live>>

\* scan over every data block of the file
DoTableScan ==
    \E r \in {TableScan(TM, 1, blk_cnt - 1)} :
    /\ pc = "idle"
    /\ Len(r.st.bm.lru_list) <= MaxLru
    /\ SetTM(r.st)
    /\ ret' = [op |-> "table_scan", arg |-> blk_cnt - 1, ok |-> r.err = "Ok",
               val |-> Len(r.rids), wb |-> FALSE]
    /\ UNCHANGED <<page, guards, pc, live>>

NextTable ==
    \/ DoTableInsert
    \/ DoTableGet
    \/ DoTableScan

\* a table manager over a new file: inserts, reads and scans through a pool
\* smaller than the file
SpecTable == InitTable /\ [][NextTable]_vars

(***************************************************************************)
(* Free list, as the code's headers describe it                            *)
(***************************************************************************)
RECURSIVE WalkOK(_, _, _)
WalkOK(cur, before, seen) ==
    IF cur = -1 THEN TRUE
    ELSE /\ cur \in 1..(blk_cnt - 1)
         /\ cur \notin seen
         /\ disk[cur].prev = before
         /\ WalkOK(disk[cur].next, cur, seen \cup {cur})

RECURSIVE ListFrom(_, _)
ListFrom(cur, fuel) ==
    IF cur < 0 \/ cur >= blk_cnt \/ fuel = 0 THEN <<>>
    ELSE <<cur>> \o ListFrom(disk[cur].next, fuel - 1)

FreeList == ListFrom(first_free_hole, MaxBlocks + 1)

\* C1: after every completed allocate_block, allocate_block_with_space,
\* free_block and update_free_bytes call, following next_free_page from
\* first_free_hole visits only blocks in [1, blk_cnt), none twice, ends at
\* -1, and every visited block's prev_free_page is the block visited before
\* it (-1 at the head).
C1_FreeListWellFormed == WalkOK(first_free_hole, -1, {})

\* a block has just been detached from the middle or the head of a list that
\* still holds at least two blocks
C1_Witness ==
    /\ ret.op \in {"allocate_block_with_space", "update_free_bytes"}
    /\ ret.ok
    /\ Len(FreeList) >= 2
    /\ \E b \in Blocks : b < blk_cnt /\ disk[b].fb = 0 /\ disk[b].next = -1

\* C2: allocate_block never returns block 0 and never returns a block that
\* an earlier allocate_block returned and that was not freed since.
\* Equivalently no block is both live and on the free list.
C2_AllocateNeverLive ==
    /\ [][(ret'.op = "allocate_block" /\ ret'.ok)
            => (ret'.val # 0 /\ ret'.val \notin live)]_vars
    /\ [](\A i \in 1..Len(FreeList) : FreeList[i] \notin live)

\* allocate_block has just handed out again a block that was freed before,
\* while other blocks are live
C2_Witness ==
    /\ ret.op = "allocate_block"
    /\ ret.ok
    /\ ret.val < blk_cnt - 1
    /\ Cardinality(live) >= 2

(***************************************************************************)
(* Buffer manager claims                                                   *)
(***************************************************************************)
Occupied == {i \in Slots : ~IsNone(frames[i])}

IsFetchStep == \E b \in PoolArgs, io \in IoArgs : FetchStep(b, io)

\* slot i held a frame before the step and holds another block, or none, after
Rebound(i) == i \in Occupied /\ frames'[i].block_id # frames[i].block_id

\* C3: fetch never rebinds a frame whose pin_count is greater than 0: no
\* fetch call replaces or removes a frame that had pin_count > 0 immediately
\* before the call.
C3_NoPinnedVictim ==
    [][(\E i \in Slots : Rebound(i) /\ frames[i].pin_count > 0) => ~IsFetchStep]_vars

\* the last fetch evicted a frame while the frame of another slot is pinned
C3_Witness ==
    /\ ret.op = "fetch" /\ ret.ok /\ ret.val # 0
    /\ \E i \in Occupied \ {ret.val} : frames[i].pin_count > 0
    /\ frames[ret.val].block_id = ret.arg

\* C4: whenever fetch evicts a frame whose dirty flag is set, the frame's
\* bytes are on disk under that frame's own block id when the call returns,
\* and the frame a miss loads holds the bytes the disk has for its block: no
\* fetch call drops a dirty frame's bytes or loads other bytes.
C4_DirtyVictimWritten ==
    [][(\/ \E i \in Slots : /\ Rebound(i) /\ frames[i].dirty
                            /\ disk'[frames[i].block_id] # frames[i].data
        \/ \E b \in DOMAIN map' \ DOMAIN map : frames'[map'[b]].data # disk'[b])
       => ~IsFetchStep]_vars

\* the last fetch evicted a dirty frame, and the evicted block's bytes on disk
\* are bytes that were written through a guard
C4_Witness ==
    /\ ret.op = "fetch" /\ ret.ok /\ ret.val # 0 /\ ret.wb
    /\ \E b \in Blocks : b \notin DOMAIN map /\ disk[b].body # 0

\* C5: after every buffer-pool operation no two occupied frames hold the
\* same block id, and map sends block b to slot i exactly when frame i is
\* occupied and holds b.
C5_IndexConsistent ==
    /\ \A i, j \in Occupied : i # j => frames[i].block_id # frames[j].block_id
    /\ \A b \in DOMAIN map : map[b] \in Occupied /\ frames[map[b]].block_id = b
    /\ \A i \in Occupied : /\ frames[i].block_id \in DOMAIN map
                           /\ map[frames[i].block_id] = i

\* the block that the last fetch loaded over an evicted frame was removed
\* again by free_page, and another block is still resident
C5_Witness ==
    /\ ret.op = "fetch" /\ ret.ok /\ ret.val # 0
    /\ ret.arg \notin DOMAIN map
    /\ Occupied # {} /\ Occupied # Slots

\* C6: while a guard returned by fetch(b) has not been dropped, block b stays
\* resident in the frame it was fetched into, with pin_count >= 1.
C6_GuardKeepsResident ==
    \A b \in Blocks :
        guards[<<b, TRUE>>] + guards[<<b, FALSE>>] > 0
            => /\ guards[<<b, FALSE>>] = 0
               /\ b \in DOMAIN map
               /\ frames[map[b]].pin_count >= 1

AllPinned == Occupied = Slots /\ \A i \in Slots : frames[i].pin_count > 0

\* C7: when every frame is occupied and pinned, fetch of a non-resident block
\* returns (an error) and leaves frames, map, lru order and pin counts as
\* they were.
C7_NoVictimWhenAllPinned ==
    [][\A b \in PoolArgs, io \in IoArgs :
         (AllPinned /\ b \notin DOMAIN map /\ (FetchStep(b, io) \/ FetchSpinStep(b)))
            => /\ pc' = "idle"
               /\ ret' = [op |-> "fetch", arg |-> b, ok |-> FALSE, val |-> 0, wb |-> FALSE]
               /\ UNCHANGED <<frames, map, lru_list>>]_vars

\* the occupied slot with pin_count = 0 whose last fetch is the oldest (0: none)
OldestUnpinned ==
    LET idle == {k \in 1..Len(recency) : frames[recency[k]].pin_count = 0} IN
    IF idle = {} THEN 0
    ELSE recency[CHOOSE k \in idle : \A m \in idle : k <= m]

\* C8: on a fetch miss with no empty slot, the frame evicted is, among the
\* frames with pin_count = 0, the one whose most recent fetch is the oldest.
C8_EvictsLeastRecentlyFetched ==
    [][\A b \in PoolArgs, io \in IoArgs :
         (FetchStep(b, io) /\ ret'.val # 0) => ret'.val = OldestUnpinned]_vars

(***************************************************************************)
(* Slotted-page claims                                                     *)
(***************************************************************************)
\* C9: after delete_record(s) followed by compact, every surviving record is
\* still returned by get_record under its slot index with its bytes, slot s
\* is still a tombstone (NotFound), and the directory keeps its number of
\* entries.
C9_SlotStability ==
    [][(ret.op = "delete_record" /\ ret.ok /\ ret'.op = "compact")
        => /\ Len(page'.slots) = Len(page.slots)
           /\ GetRecord(page', ret.arg).err = "NotFound"
           /\ \A s \in SlotArgs :
                (s < Len(page.slots) /\ GetRecord(page, s).err = "Ok")
                    => GetRecord(page', s) = GetRecord(page, s)]_vars

\* C10: after every insert_record, delete_record and compact on a page that
\* started empty, PAGE_HDR_SIZE <= free_offset <= page_size - 4 * n and
\* free_bytes = page_size - free_offset - 4 * n, n the number of directory
\* entries.
C10_PageInvariant ==
    LET n == Len(page.slots) IN
    /\ PAGE_HDR_SIZE <= page.header.free_offset
    /\ page.header.free_offset <= PageSize - 4 * n
    /\ page.header.free_bytes = PageSize - page.header.free_offset - 4 * n

(***************************************************************************)
(* Persistence claims                                                      *)
(***************************************************************************)
\* the handle a reopening of the file gives after this step
Reopened == OpenFile(DropHandle(FS))'

FlushAllReturnsOk ==
    \E fail_at \in 0..Capacity : FlushAll(BM, FS, fail_at).ok /\ FlushAllStep(fail_at)

C12_DropPersistsHeader ==
    [][ret'.op = "open_file"
        => (blk_cnt' = blk_cnt /\ first_free_hole' = first_free_hole)]_vars

\* a reopened file whose header differs from the one written at creation
C12_Witness ==
    /\ ret.op = "open_file"
    /\ blk_cnt >= 3
    /\ first_free_hole >= 1

(***************************************************************************)
(* Allocation and release claims                                           *)
(***************************************************************************)
\* the return values and the final header of
\* allocate, allocate, free_block(1), allocate on the file state fs
AllocFreeAlloc(fs) ==
    LET a1 == AllocateBlock(fs)
        a2 == AllocateBlock(a1.fs)
        f  == FreeBlock(a2.fs, 1)
        a3 == AllocateBlock(f.fs)
    IN  <<a1.val, a2.val, a3.val, a3.fs.blk_cnt, a3.fs.first_free_hole>>

\* C13: allocate_block returns the free-list head h when first_free_hole >= 0
\* (afterwards first_free_hole is h's former next, that block's
\* prev_free_page is -1, h's links are (-1, -1), blk_cnt is unchanged) and
\* otherwise returns the old blk_cnt and increases blk_cnt by exactly 1; on a
\* new file allocate, allocate, free_block(1), allocate returns 1, 2, 1 and
\* ends with blk_cnt = 3 and an empty free list.
C13_AllocateReturnsHead ==
    /\ [][ret'.op = "allocate_block"
            => /\ ret'.ok
               /\ IF first_free_hole >= 0
                  THEN /\ ret'.val = first_free_hole
                       /\ first_free_hole' = disk[first_free_hole].next
                       /\ first_free_hole' >= 0 => disk'[first_free_hole'].prev = -1
                       /\ disk'[first_free_hole].next = -1
                       /\ disk'[first_free_hole].prev = -1
                       /\ blk_cnt' = blk_cnt
                  ELSE /\ ret'.val = blk_cnt
                       /\ blk_cnt' = blk_cnt + 1]_vars
    /\ []((ret.op = "open_file" /\ blk_cnt = 1)
            => AllocFreeAlloc(FS) = <<1, 2, 1, 3, -1>>)

\* allocate_block has just returned the head of a list of at least two blocks
C13_Witness ==
    /\ ret.op = "allocate_block"
    /\ ret.ok
    /\ first_free_hole >= 1
    /\ disk[first_free_hole].prev = -1
    /\ ret.val \in 1..(blk_cnt - 1)
    /\ disk[ret.val].next = -1

\* the blocks reached from first_free_hole through next_free_page
OnFreeList == {FreeList[i] : i \in 1..Len(FreeList)}

\* C14: free_block(n), for any block n with 1 <= n < blk_cnt that is not on
\* the free list, whatever bytes the block holds, makes n the head of the
\* free list: first_free_hole = n, n's next_free_page is the previous head,
\* n's prev_free_page is -1 and the previous head's prev_free_page is n.
C14_FreeBlockLinksAnyBlock ==
    [][(/\ ret'.op = "free_block"
        /\ ret'.arg \in 1..(blk_cnt - 1)
        /\ ret'.arg \notin OnFreeList)
        => /\ ret'.ok
           /\ first_free_hole' = ret'.arg
           /\ disk'[ret'.arg].next = first_free_hole
           /\ disk'[ret'.arg].prev = -1
           /\ first_free_hole >= 0 => disk'[first_free_hole].prev = ret'.arg]_vars

\* C15: free_block(n) on a block that is already on the free list (head,
\* middle or tail) returns success and leaves first_free_hole, blk_cnt and
\* every block's links unchanged.
C15_DoubleFreeIsNoOp ==
    [][(ret'.op = "free_block" /\ ret'.arg \in OnFreeList)
        => /\ ret'.ok
           /\ first_free_hole' = first_free_hole
           /\ blk_cnt' = blk_cnt
           /\ \A b \in AllBlocks : /\ disk'[b].next = disk[b].next
                                   /\ disk'[b].prev = disk[b].prev]_vars

\* free_block has just been called on the middle block of a list of three
C15_Witness ==
    /\ ret.op = "free_block"
    /\ ret.ok
    /\ Len(FreeList) = 3
    /\ ret.arg = FreeList[2]

\* C16: free_page(b) removes b from the pool if it is resident (without
\* write-back) and frees the block in the file: afterwards
\* first_free_hole = b and the next allocate_block returns b.
C16_FreePageFreesBlock ==
    [][\A b \in PoolArgs :
          (b < blk_cnt /\ b \notin OnFreeList /\ FreePageStep(b))
              => /\ b \notin DOMAIN map'
                 /\ first_free_hole' = b
                 /\ (AllocateBlock(FS).val)' = b]_vars

(***************************************************************************)
(* Block 0                                                                 *)
(***************************************************************************)
\* C17: read_block(0) and write_block(0) fail with InvalidInput and leave the
\* file's bytes and the in-memory header unchanged (and so block 0 never
\* enters the pool through fetch(0), whose miss path is a read_block(0)).
C17_BlockZeroRefused ==
    [][(ret'.op \in {"read_block", "write_block"} /\ ret'.arg = 0)
        => /\ ~ret'.ok
           /\ disk' = disk
           /\ blk_cnt' = blk_cnt
           /\ first_free_hole' = first_free_hole]_vars

(***************************************************************************)
(* Record insertion claims                                                 *)
(***************************************************************************)
\* C18: for every byte string d that insert_record accepts (the empty string
\* included), get_record on the returned slot returns exactly d, and keeps
\* returning d after later inserts and deletes of other slots.
C18_GetReturnsInserted ==
    [][/\ (ret'.op = "insert_record" /\ ret'.ok)
            => GetRecord(page', ret'.val) = [err |-> "Ok", bytes |-> Rec(ret'.arg)]
       /\ \A s \in SlotArgs :
            (/\ s < Len(page.slots)
             /\ GetRecord(page, s).err = "Ok"
             /\ \/ ret'.op = "insert_record"
                \/ ret'.op = "delete_record" /\ ret'.arg # s)
                => GetRecord(page', s) = GetRecord(page, s)]_vars

\* C19: a successful insert_record(d) decreases free_bytes by exactly
\* len(d) + 4, increases slot_count by 1, increases free_offset by len(d),
\* records the entry (old free_offset, len(d)) and returns the index of the
\* new last directory entry; no existing entry or payload byte changes.
C19_InsertAccounting ==
    [][(ret'.op = "insert_record" /\ ret'.ok)
        => /\ page'.header.free_bytes = page.header.free_bytes - (ret'.arg + 4)
           /\ page'.header.slot_count = page.header.slot_count + 1
           /\ page'.header.free_offset = page.header.free_offset + ret'.arg
           /\ Len(page'.slots) = Len(page.slots) + 1
           /\ page'.slots[Len(page'.slots)] = <<page.header.free_offset, ret'.arg>>
           /\ ret'.val = Len(page'.slots) - 1
           /\ SubSeq(page'.slots, 1, Len(page.slots)) = page.slots
           /\ SubSeq(page'.data, 1, Len(page.data)) = page.data]_vars

\* C20: insert_record(d) succeeds only if free_bytes >= len(d) + 4, evaluated
\* without wrap-around or truncation, for every data length including 65532
\* bytes and more; otherwise it fails with NoSpace and leaves header, payload
\* and directory unchanged.
C20_InsertSpaceCheck ==
    [][(ret'.op = "insert_record" /\ page.header.free_bytes < ret'.arg + 4)
        => /\ ~ret'.ok
           /\ pc' # "panic"
           /\ page' = page]_vars

(***************************************************************************)
(* Record deletion and lookup claims                                       *)
(***************************************************************************)
\* C21: delete_record(s) on a live slot sets only that directory entry to
\* (0, 0) and adds len + 4 to free_bytes: the number of directory entries and
\* the header's slot_count are unchanged, free_offset and the payload bytes
\* are unchanged, and every other slot keeps its index and content.
C21_DeleteFrame ==
    [][(ret'.op = "delete_record" /\ ret'.ok)
        => /\ page'.slots = [page.slots EXCEPT ![ret'.arg + 1] = <<0, 0>>]
           /\ page'.header.free_bytes =
                  page.header.free_bytes + page.slots[ret'.arg + 1][2] + 4
           /\ page'.header.slot_count = page.header.slot_count
           /\ page'.header.free_offset = page.header.free_offset
           /\ page'.data = page.data]_vars

\* the error kind a get_record(s) or delete_record(s) call must report on the
\* current page: none is prescribed for a live slot
ExpectedErr(s) ==
    IF s >= Len(page.slots) THEN {"InvalidInput"}
    ELSE IF page.slots[s + 1][2] = 0 THEN {"NotFound"}
    ELSE {"Ok", "UnexpectedEof"}

\* C22: get_record(s) and delete_record(s) fail with InvalidInput when s is
\* not an existing directory index and with NotFound when slot s is a
\* tombstone (so a second delete of the same slot fails), and a failing call
\* leaves the page unchanged.
C22_SlotErrors ==
    [][/\ ret'.op = "get_record"
            => /\ GetRecord(page, ret'.arg).err \in ExpectedErr(ret'.arg)
               /\ ret'.ok = (GetRecord(page, ret'.arg).err = "Ok")
               /\ page' = page
       /\ ret'.op = "delete_record"
            => /\ DeleteRecord(page, ret'.arg).err \in ExpectedErr(ret'.arg)
               /\ ret'.ok = (DeleteRecord(page, ret'.arg).err = "Ok")
               /\ ~ret'.ok => page' = page]_vars

\* a second delete_record of the same slot has just failed
C22_Witness ==
    /\ ret.op = "delete_record"
    /\ ~ret.ok
    /\ ret.arg < Len(page.slots)
    /\ page.slots[ret.arg + 1] = <<0, 0>>
    /\ \E s \in SlotArgs : s < Len(page.slots) /\ page.slots[s + 1][2] > 0

(***************************************************************************)
(* Page image claims                                                       *)
(***************************************************************************)
\* C23: for every page p reachable from the empty page by insert_record,
\* delete_record and compact, flushing p into a frame and loading that frame
\* yields a page equal to p in header (slot_count, free_offset, free_bytes),
\* payload and slot directory.
C23_FlushLoadRoundTrip ==
    [][ret'.op = "flush_load"
        => /\ Flush(page, PageSize).ok
           /\ Load(Flush(page, PageSize).frame).ok
           /\ Load(Flush(page, PageSize).frame).page = page]_vars

(***************************************************************************)
(* Pool contract claims                                                    *)
(***************************************************************************)
\* a fetch(b) call has returned a guard in this step: nothing else adds a guard
FetchReturnsGuard(b) == guards'[<<b, TRUE>>] = guards[<<b, TRUE>>] + 1

\* C24: fetch(b) of a resident block increases that frame's pin_count by
\* exactly 1, performs no disk read (it succeeds when the disk cannot be
\* read), and returns a guard over the same frame bytes, so a modification
\* made through an earlier guard, flushed or not, marked dirty or not, is
\* observed by the next fetch(b) as long as b was not evicted in between.
C24_FetchHit ==
    /\ [][\A b \in Blocks :
            (FindFrame(BM, b) # 0 /\ FetchReturnsGuard(b))
                => /\ frames' = [frames EXCEPT ![FindFrame(BM, b)].pin_count = @ + 1]
                   /\ map' = map
                   /\ disk' = disk
                   /\ ret'.val = 0]_vars
    /\ [](\A b \in Blocks :
            FindFrame(BM, b) # 0 => Fetch(BM, FS, b, "read_fails").res = "hit")

\* a second guard was fetched on a block whose frame holds bytes written
\* through a guard, not marked dirty and not on disk
C24_Witness ==
    /\ ret.op = "fetch" /\ ret.ok /\ ret.val = 0
    /\ ret.arg \in DOMAIN map
    /\ frames[map[ret.arg]].pin_count = 2
    /\ guards[<<ret.arg, TRUE>>] = 2
    /\ ~frames[map[ret.arg]].dirty
    /\ frames[map[ret.arg]].data.body # disk[ret.arg].body

\* C25: unpin(b) decreases pin_count by 1 only when b is resident with
\* pin_count > 0 and is otherwise a no-op (pin_count never goes below 0);
\* mark_dirty(b) only sets the dirty flag of a resident b; neither changes
\* lru order, index, frame bytes or any other frame.
C25_UnpinMarkDirtyFrame ==
    /\ [][\A b \in PoolArgs :
            /\ UnpinStep(b)
                 => /\ frames' = IF b \in DOMAIN map /\ frames[map[b]].pin_count > 0
                                 THEN [frames EXCEPT ![map[b]].pin_count = @ - 1]
                                 ELSE frames
                    /\ lru_list' = lru_list
                    /\ map' = map
            /\ MarkDirtyStep(b)
                 => /\ frames' = IF b \in DOMAIN map
                                 THEN [frames EXCEPT ![map[b]].dirty = TRUE]
                                 ELSE frames
                    /\ lru_list' = lru_list
                    /\ map' = map]_vars
    /\ [](\A i \in Occupied : frames[i].pin_count >= 0)

\* a frame marked dirty whose pin was released by unpin while its guard lives
C25_Witness ==
    \E i \in Occupied :
        /\ frames[i].pin_count = 0
        /\ frames[i].dirty
        /\ frames[i].block_id \in Blocks
        /\ guards[<<frames[i].block_id, TRUE>>] >= 1

\* C26: allocate_data_page returns a newly allocated block id without
\* fetching or pinning it (frames, index, lru and pin counts are unchanged),
\* and the block's on-disk image decodes as an empty slotted page:
\* slot_count = 0, free_offset = PAGE_HDR_SIZE,
\* free_bytes = block_size - PAGE_HDR_SIZE.
C26_AllocateDataPage ==
    [][DoAllocateDataPage
        => \E r \in {AllocateDataPage(BM, FS)} :
             /\ r.ok
             /\ r.val \in 1..(blk_cnt' - 1)
             /\ r.val \notin live
             /\ live' = live \cup {r.val}
             /\ frames' = frames
             /\ map' = map
             /\ lru_list' = lru_list
             /\ DecodePageHeader(disk'[r.val]) =
                    [slot_count |-> 0, free_offset |-> PAGE_HDR_SIZE,
                     free_bytes |-> HandleBlockSize - PAGE_HDR_SIZE]
             /\ disk'[r.val].fb = 0
             /\ disk'[r.val].body = 0]_vars

\* a data page was allocated past the blocks of a pool with a pinned frame
C26_Witness ==
    /\ blk_cnt = MaxBlocks
    /\ (MaxBlocks - 1) \in live
    /\ (MaxBlocks - 1) \notin DOMAIN map
    /\ DecodePageHeader(disk[MaxBlocks - 1]).free_offset = PAGE_HDR_SIZE
    /\ \E i \in Occupied : frames[i].pin_count > 0

(***************************************************************************)
(* File creation                                                           *)
(***************************************************************************)
\* n rounded up to a multiple of m
RoundUp(n, m) == ((n + m - 1) \div m) * m

\* C27: create_table_file fails when the path already exists and leaves the
\* existing file unchanged; otherwise it creates a file whose length is
\* max(preallocate_bytes, block_size) rounded up to a multiple of block_size
\* and whose header, when opened, reads blk_cnt = 1 and first_free_hole = -1.
C27_CreateTableFile ==
    [][ret'.op = "create_table_file"
        => IF file_len >= 0
           THEN ~ret'.ok /\ file_len' = file_len /\ disk' = disk
           ELSE /\ ret'.ok
                /\ file_len' = RoundUp(IF ret'.arg > ret'.val THEN ret'.arg ELSE ret'.val,
                                       ret'.val)
                /\ \E o \in {OpenFileAt(file_len', [FS EXCEPT !.disk = disk'], ret'.val)} :
                      /\ o.err = "Ok"
                      /\ o.fs.blk_cnt = 1
                      /\ o.fs.first_free_hole = -1]_vars

(***************************************************************************)
(* Table facade claims                                                     *)
(***************************************************************************)
\* the RIDs of the records inserted so far: slot 0 of every block handed out
InsertedRids == [k \in 1..(blk_cnt - 1) |-> <<k, 0>>]

\* C28: starting from a newly created file, k successful facade inserts leave
\* blk_cnt = k + 1 and return k distinct RIDs, each in its own block; scan
\* over blocks 1..k returns exactly those k RIDs and get on each RID returns
\* the inserted bytes, for any pool capacity >= 1, including when the inserts
\* and reads force evictions.  Stated step by step: a successful insert takes
\* a block no earlier RID is in, its RID reads back as the inserted bytes and
\* the scan lists every RID so far; and no facade call changes what get
\* returns for an earlier RID.
C28_FacadeInserts ==
    /\ [](blk_cnt = Cardinality(live) + 1 /\ live = 1..(blk_cnt - 1))
    /\ [][(ret'.op = "table_insert" /\ ret'.ok)
           => /\ ret'.val \notin live
              /\ blk_cnt' = blk_cnt + 1
              /\ TableInsert(TM, Rec(ret'.arg)).rid = <<ret'.val, 0>>
              /\ TableGet(TM', <<ret'.val, 0>>).err = "Ok"
              /\ TableGet(TM', <<ret'.val, 0>>).bytes = Rec(ret'.arg)
              /\ TableScan(TM', 1, blk_cnt' - 1).err = "Ok"
              /\ TableScan(TM', 1, blk_cnt' - 1).rids = InsertedRids']_vars
    /\ [][\A b \in live :
             /\ TableGet(TM', <<b, 0>>).err = TableGet(TM, <<b, 0>>).err
             /\ TableGet(TM', <<b, 0>>).bytes = TableGet(TM, <<b, 0>>).bytes]_vars

(***************************************************************************)
(* Free-list ordering and I/O errors                                       *)
(***************************************************************************)
FreeListOps == {"allocate_block", "free_block", "update_free_bytes"}

\* the file as the call of the step leaves it when none of its I/O fails
CallCompleted ==
    IF ret'.op = "allocate_block" THEN AllocateBlockWithSpaceIo(FS, 0, 0).fs
    ELSE IF ret'.op = "free_block" THEN FreeBlockIo(FS, ret'.arg, 0).fs
    ELSE UpdateFreeBytesIo(FS, ret'.arg, ret'.val, 0).fs

\* the block the call of the step detaches or links
CallBlock == IF ret'.op = "allocate_block" THEN first_free_hole ELSE ret'.arg

\* C29: in every operation that changes the free list (allocate_block
\* detaching a block, free_block, update_free_bytes), the on-disk link
\* updates of the blocks that remain on the list are written before
\* first_free_hole in the header is changed, so at every intermediate step
\* first_free_hole heads a well-formed list.  The intermediate steps are the
\* states a call stands in when one of its reads or writes is issued: there
\* the walk from first_free_hole is well formed, and once first_free_hole has
\* changed every other block has the links the completed call gives it.
C29_LinksBeforeHead ==
    [][ret'.op \in FreeListOps
        => /\ C1_FreeListWellFormed'
           /\ (pc' = "io_failed" /\ first_free_hole' # first_free_hole)
                => \A c \in Blocks \ {CallBlock} :
                      c < blk_cnt => ReadPageHeader(FS', c)
                                       = ReadPageHeader(CallCompleted, c)]_vars

\* C30: if a block read or write fails inside allocate_block, free_block or
\* update_free_bytes, the call returns the error and the in-memory header
\* (blk_cnt and first_free_hole) is the same as before the call.
C30_IoErrorKeepsHeader ==
    [][pc' = "io_failed"
        => /\ ~ret'.ok
           /\ blk_cnt' = blk_cnt
           /\ first_free_hole' = first_free_hole]_vars

(***************************************************************************)
(* Failed fetch, freed blocks, header validation                           *)
(***************************************************************************)
\* C31: a fetch(b) that fails because b cannot be read (b >= blk_cnt) leaves
\* the pool unchanged: same resident blocks, dirty flags, pin counts, index
\* and lru order, with an empty slot or with a full pool and an unpinned
\* frame.
C31_FailedReadKeepsPool ==
    [][\A b \in PoolArgs :
         (b >= blk_cnt /\ b \notin DOMAIN map /\ FetchStep(b, "ok"))
            => /\ ~ret'.ok
               /\ UNCHANGED <<frames, map, lru_list>>]_vars

\* C32: after free_block(n) succeeds on a live block, every byte of block n
\* after the 12-byte free-page header is zero and the header's free_bytes is
\* the maximum, the block size minus the size of the page header.
C32_FreeBlockZeroesBody ==
    [][(ret'.op = "free_block" /\ ret'.ok /\ ret'.arg \in live)
        => /\ disk'[ret'.arg].body = 0
           /\ disk'[ret'.arg].fb = MaxFreeBytes]_vars

\* C33: open_file validates the header it reads: a file whose block 0 has
\* blk_cnt = 0 or a first_free_hole outside [-1, blk_cnt) is rejected with an
\* error and yields no file handle.
C33_OpenValidatesHeader ==
    [][(ret'.op = "open_file" /\ ret'.ok)
        => /\ disk'[0].next # 0
           /\ disk'[0].prev >= -1
           /\ disk'[0].prev < disk'[0].next]_vars

(***************************************************************************)
(* The lru queue, block 0, page capacity, durability                       *)
(***************************************************************************)
\* C34: after every buffer-pool operation, lru_list holds the index of each
\* occupied slot exactly once and no index of an empty slot, so its length
\* is the number of resident frames and never exceeds the capacity.
C34_LruMatchesFrames ==
    pc = "idle" =>
        /\ \A i \in Slots :
             Cardinality({k \in 1..Len(lru_list) : lru_list[k] = i})
                = IF IsNone(frames[i]) THEN 0 ELSE 1
        /\ Len(lru_list) <= Capacity

\* C35: update_free_bytes(0, k) is rejected for every k and leaves the
\* in-memory header (blk_cnt, first_free_hole) and the bytes of block 0, the
\* two reserved header fields included, unchanged; no file-handle operation
\* treats block 0 as a data block, so no allocation returns it.
C35_UpdateBlockZeroRefused ==
    [][/\ (ret'.op = "update_free_bytes" /\ ret'.arg = 0)
            => /\ ~ret'.ok
               /\ blk_cnt' = blk_cnt
               /\ first_free_hole' = first_free_hole
               /\ disk'[0] = disk[0]
       /\ (ret'.op \in {"allocate_block", "allocate_block_with_space"} /\ ret'.ok)
            => ret'.val # 0]_vars

\* C36: after any sequence of insert_record, delete_record and compact on a
\* page that started empty, whenever insert_record succeeds the page still
\* fits its block: PAGE_HDR_SIZE + payload length + 4 * (number of directory
\* entries) <= page size, so Page::flush into a frame of that size succeeds
\* and the payload does not overlap the slot directory.
C36_PageFitsBlock ==
    [][(ret'.op = "insert_record" /\ ret'.ok)
        => /\ PAGE_HDR_SIZE + Len(page'.data) + 4 * Len(page'.slots) <= PageSize
           /\ Flush(page', PageSize).ok]_vars

\* C37: every frame that was marked dirty is written to disk by the time the
\* buffer pool has been dropped, with or without an explicit flush_all: when
\* the pool and its handle go out of scope, the bytes on disk of each dirty
\* frame's block equal the frame's last contents, so that they are read back
\* after the file is reopened.
C37_DirtyFramesReachDisk ==
    [][DoReopenPool
        => \A i \in Occupied :
             frames[i].dirty => disk'[frames[i].block_id] = frames[i].data]_vars

====
